---------------------------- MODULE Spec2Model ----------------------------
(***************************************************************************)
(* A model of the resume scoring pipeline of AI-Resume-Screening-Agent:    *)
(* ResumeScorer (src/scoring.py), EmbeddingsManager (src/embeddings.py),   *)
(* BiasDetector (src/bias_detection.py), the analysis step of the          *)
(* application (src/app.py) and SupabaseManager (src/supabase_client.py).  *)
(*                                                                         *)
(* Conventions                                                             *)
(*  - a Python str is a sequence of one-character strings;                 *)
(*  - an Optional value is <<>> (None) or <<v>>;                           *)
(*  - a dict is a function whose DOMAIN is the set of keys present;        *)
(*  - a component score, the quotient of two integers in the code, is the  *)
(*    exact rational <<numerator, denominator>> in lowest terms with a     *)
(*    positive denominator, standing for the double nearest to it;         *)
(*  - a final score, a sum of products of doubles, is a double with the    *)
(*    rounding of each operation (see Python floats below).                *)
(***************************************************************************)
EXTENDS Integers, Sequences, FiniteSets, TLC

VARIABLES
    scorer,   \* the ResumeScorer instance of the session, or NoScorer
    manager,  \* the EmbeddingsManager instance of the session, or NoManager
    supabase, \* the resume_analyses table of the Supabase project and the
              \* insert requests it has received
    hash_secret, \* the secret that salts hash(str) in the process of the
              \* session (PYTHONHASHSEED), fixed when the process starts
    pc,       \* "idle": between calls; "done": a call has just finished
    call,     \* the operation last invoked, with its arguments
    result,   \* what that operation returned or raised
    session   \* the flags of the session of the application, None before
              \* it has started

vars == <<scorer, manager, supabase, hash_secret, pc, call, result, session>>

-----------------------------------------------------------------------------
(* Optional values and dicts                                               *)

None == <<>>
Some(v) == <<v>>
IsNone(o) == o = <<>>
Val(o) == o[1]

EmptyDict == [k \in {} |-> None]

\* dict.get(key, default)
Get(d, key, default) == IF key \in DOMAIN d THEN d[key] ELSE default

\* how a call ends: it returns a value or raises an exception
Returned(v) == [outcome |-> "returned", value |-> v]
Raise(e) == [outcome |-> "raised", exc |-> e]

-----------------------------------------------------------------------------
(* Exact rational arithmetic standing for Python floats                    *)

Abs(x) == IF x < 0 THEN -x ELSE x

\* sum of a sequence of integers
RECURSIVE SumSeq(_)
SumSeq(xs) == IF xs = <<>> THEN 0 ELSE xs[1] + SumSeq(Tail(xs))

RECURSIVE GCD(_, _)
GCD(a, b) == IF b = 0 THEN a ELSE GCD(b, a % b)

Rat(n, d) ==
    LET g == GCD(Abs(n), Abs(d))
        s == IF d < 0 THEN -1 ELSE 1
    IN  <<(s * n) \div g, (s * d) \div g>>

RZero == <<0, 1>>
ROne == <<1, 1>>

RAdd(x, y) ==
    LET g == GCD(x[2], y[2])
        l == (x[2] \div g) * y[2]
    IN  Rat(x[1] * (l \div x[2]) + y[1] * (l \div y[2]), l)

RMul(x, y) ==
    LET a == Rat(x[1], y[2])
        b == Rat(y[1], x[2])
    IN  <<a[1] * b[1], a[2] * b[2]>>

RLe(x, y) ==
    LET g == GCD(x[2], y[2])
    IN  x[1] * (y[2] \div g) <= y[1] * (x[2] \div g)
RLt(x, y) == ~RLe(y, x)
RMin(x, y) == IF RLe(x, y) THEN x ELSE y
RMax(x, y) == IF RLe(x, y) THEN y ELSE x

-----------------------------------------------------------------------------
(* Python str operations on sequences of characters                        *)

Lowercase == <<"a","b","c","d","e","f","g","h","i","j","k","l","m",
               "n","o","p","q","r","s","t","u","v","w","x","y","z">>
Uppercase == <<"A","B","C","D","E","F","G","H","I","J","K","L","M",
               "N","O","P","Q","R","S","T","U","V","W","X","Y","Z">>
Digits == <<"0","1","2","3","4","5","6","7","8","9">>

Range(f) == {f[i] : i \in DOMAIN f}

IsLower(c) == c \in Range(Lowercase)
IsUpper(c) == c \in Range(Uppercase)
IsAlpha(c) == IsLower(c) \/ IsUpper(c)
IsDigit(c) == c \in Range(Digits)
\* \w of the re module
IsWordChar(c) == IsAlpha(c) \/ IsDigit(c) \/ c = "_"
\* \s of the re module, and what str.strip() removes
IsSpace(c) == c \in {" ", "\n", "\t", "\r"}

LowerChar(c) ==
    IF IsUpper(c) THEN Lowercase[CHOOSE i \in 1..26 : Uppercase[i] = c] ELSE c
UpperChar(c) ==
    IF IsLower(c) THEN Uppercase[CHOOSE i \in 1..26 : Lowercase[i] = c] ELSE c

\* str.lower()
Lower(s) == [i \in 1..Len(s) |-> LowerChar(s[i])]

\* str.strip()
Strip(s) ==
    LET keep == {i \in 1..Len(s) : ~IsSpace(s[i])}
    IN  IF keep = {} THEN <<>>
        ELSE LET lo == CHOOSE i \in keep : \A j \in keep : i <= j
                 hi == CHOOSE i \in keep : \A j \in keep : j <= i
             IN  SubSeq(s, lo, hi)

\* str.title(): the first letter of every run of letters in upper case, the
\* rest in lower case
Title(s) ==
    [i \in 1..Len(s) |->
        IF i = 1 \/ ~IsAlpha(s[i - 1]) THEN UpperChar(s[i]) ELSE LowerChar(s[i])]

\* sub occurs in s at position i
MatchAt(sub, s, i) ==
    /\ i >= 1
    /\ i + Len(sub) - 1 <= Len(s)
    /\ \A k \in 1..Len(sub) : s[i + k - 1] = sub[k]

\* `sub in s`
Contains(sub, s) == \E i \in 1..(Len(s) + 1) : MatchAt(sub, s, i)

\* sep.join(parts)
RECURSIVE Join(_, _)
Join(parts, sep) ==
    IF parts = <<>> THEN <<>>
    ELSE IF Len(parts) = 1 THEN parts[1]
    ELSE parts[1] \o sep \o Join(Tail(parts), sep)

\* set(re.findall(r'\b\w+\b', s)): the maximal runs of word characters
WordSet(s) ==
    LET starts == {i \in 1..Len(s) :
                     IsWordChar(s[i]) /\ (i = 1 \/ ~IsWordChar(s[i - 1]))}
        ends == {j \in 1..Len(s) :
                     IsWordChar(s[j]) /\ (j = Len(s) \/ ~IsWordChar(s[j + 1]))}
        EndOf(i) == CHOOSE j \in ends : j >= i /\ \A k \in ends : k >= i => j <= k
    IN  {SubSeq(s, i, EndOf(i)) : i \in starts}

\* str(n) of a non-negative int
RECURSIVE IntToText(_)
IntToText(n) ==
    IF n < 10 THEN <<Digits[n + 1]>>
    ELSE IntToText(n \div 10) \o <<Digits[(n % 10) + 1]>>

\* A number of a resume: a Python int, or a float with a whole value.  The
\* regex parser returns float(matches[0]) and float(total_years)
\* (resume_parser.py 221, 236); the language-model parser and callers pass
\* whatever the JSON holds.
PyInt(n) == [value |-> n, type |-> "int"]
PyFloat(n) == [value |-> n, type |-> "float"]

\* str(x) of such a number: '5' of 5, '5.0' of 5.0
NumText(x) ==
    IF x.type = "float" THEN IntToText(x.value) \o <<".","0">> ELSE IntToText(x.value)

\* int(s) of a run of decimal digits
RECURSIVE TextToInt(_)
TextToInt(s) ==
    IF s = <<>> THEN 0
    ELSE 10 * TextToInt(SubSeq(s, 1, Len(s) - 1))
         + ((CHOOSE i \in 1..10 : Digits[i] = s[Len(s)]) - 1)

-----------------------------------------------------------------------------
(* The inputs of the model                                                 *)

\* bounds of the model
MaxYears == 6
MaxBatch == 2

\* weights: the defaults, the custom weights and the rejected weights of
\* test_scoring.py, and sums next to the tolerance of numpy.isclose
DefaultWeights == <<Rat(35, 100), Rat(25, 100), Rat(15, 100), Rat(25, 100)>>
CustomWeights == <<Rat(4, 10), Rat(3, 10), Rat(2, 10), Rat(1, 10)>>
HalfWeights == <<Rat(1, 2), Rat(1, 2), Rat(1, 2), Rat(1, 2)>>
LowWeights == <<Rat(1, 4), Rat(1, 4), Rat(1, 4), Rat(1, 5)>>
\* sum 1.000005: within the tolerance
NearWeights == <<Rat(1, 4), Rat(1, 4), Rat(1, 4), Rat(250005, 1000000)>>
\* sum 1.000011: outside the tolerance
OffWeights == <<Rat(1, 4), Rat(1, 4), Rat(1, 4), Rat(250011, 1000000)>>
\* sum 1.00001001, at the tolerance: the sum of the floats is farther from
\* 1.0 than the tolerance of the floats
EdgeWeights == <<Rat(1, 4), Rat(1, 4), Rat(1, 4), Rat(25001001, 100000000)>>

WeightSets ==
    {DefaultWeights, CustomWeights, HalfWeights, LowWeights, NearWeights, OffWeights,
     EdgeWeights}

\* the embeddings_manager argument: None, or a manager with one of the
\* embedding models
EmbeddingModels == {1, 2}
Managers == {None} \cup {Some([model |-> m]) : m \in EmbeddingModels}

\* skills
Sk_Python == <<"P","y","t","h","o","n">>
Sk_python == <<"p","y","t","h","o","n">>
Sk_PYTHON == <<"P","Y","T","H","O","N">>
Sk_AWS == <<"A","W","S">>
Sk_aws_padded == <<" ","a","w","s"," ">>
Sk_Docker == <<"D","o","c","k","e","r">>
Sk_Java == <<"J","a","v","a">>

ResumeSkillLists ==
    {<<>>, <<Sk_Python, Sk_AWS>>, <<Sk_python, Sk_aws_padded>>, <<Sk_Java>>,
     <<Sk_Python, Sk_python, Sk_Docker>>}
RequiredSkillLists ==
    {<<>>, <<Sk_Python>>, <<Sk_Python, Sk_AWS, Sk_Docker>>, <<Sk_python, Sk_PYTHON>>,
     <<Sk_aws_padded, Sk_Java>>}

\* degrees
Dg_PhD == <<"P","h","D"," ","i","n"," ","C","o","m","p","u","t","e","r"," ","S","c","i","e","n","c","e">>
Dg_Master == <<"M","a","s","t","e","r"," ","o","f"," ","S","c","i","e","n","c","e">>
Dg_Bachelor == <<"B","a","c","h","e","l","o","r"," ","o","f"," ","S","c","i","e","n","c","e">>
Dg_BachelorMath == <<"B","a","c","h","e","l","o","r"," ","o","f"," ","S","c","i","e","n","c","e"," ","i","n"," ","M","a","t","h","e","m","a","t","i","c","s">>
Dg_MBA == <<"M","B","A">>
Dg_Associate == <<"A","s","s","o","c","i","a","t","e">>
Dg_Diploma == <<"D","i","p","l","o","m","a">>
Dg_Certificate == <<"C","e","r","t","i","f","i","c","a","t","e">>
Dg_HighSchool == <<"H","i","g","h"," ","S","c","h","o","o","l">>

Edu(degree) == [degree |-> degree, year |-> <<"2","0","1","9">>]
EduNoDegree == [year |-> <<"2","0","1","9">>]

EducationLists ==
    {<<>>, <<EduNoDegree>>, <<Edu(Dg_Bachelor), Edu(Dg_Master)>>}
    \cup {<<Edu(d)>> : d \in {Dg_PhD, Dg_Master, Dg_Bachelor, Dg_BachelorMath, Dg_MBA,
                              Dg_Associate, Dg_Diploma, Dg_Certificate, Dg_HighSchool}}

Rq_Master == <<"M","a","s","t","e","r">>
Rq_Bachelor == <<"B","a","c","h","e","l","o","r">>
Rq_Phd == <<"P","h","d">>
Rq_Doctorate == <<"D","o","c","t","o","r","a","t","e">>
Rq_MBA == <<"M","B","A">>
Rq_Associate == <<"A","s","s","o","c","i","a","t","e">>
Rq_Diploma == <<"D","i","p","l","o","m","a">>
Rq_Certificate == <<"C","e","r","t","i","f","i","c","a","t","e">>

RequiredDegrees ==
    {None, Some(<<>>)}
    \cup {Some(d) : d \in {Rq_Master, Rq_Bachelor, Rq_Phd, Rq_Doctorate, Rq_MBA,
                           Rq_Associate, Rq_Diploma, Rq_Certificate}}

\* job descriptions
JD_Empty == <<>>
JD_StopWords == <<"F","o","r"," ","t","h","e">>
JD_Python == <<"P","y","t","h","o","n"," ","d","e","v","e","l","o","p","e","r"," ","n","e","e","d","e","d">>
JD_FiveYears == <<"P","y","t","h","o","n"," ","d","e","v","e","l","o","p","e","r"," ","w","i","t","h"," ","5"," ","y","e","a","r","s"," ","e","x","p","e","r","i","e","n","c","e"," ","n","e","e","d","e","d">>
JD_Senior == <<"3","+"," ","y","e","a","r","s"," ","o","f"," ","e","x","p","e","r","i","e","n","c","e"," ","i","n"," ","A","W","S",".","\n","M","a","s","t","e","r","'","s"," ","d","e","g","r","e","e"," ","r","e","q","u","i","r","e","d">>

JobDescriptions == {JD_Empty, JD_StopWords, JD_Python, JD_FiveYears, JD_Senior}

\* candidate records
R_Empty == EmptyDict
R_NameOnly == [name |-> Some(<<"T","e","s","t"," ","U","s","e","r">>)]
R_Blank ==
    [name |-> None, skills |-> <<>>, experience_years |-> None,
     education |-> <<>>, summary |-> None]
R_John ==
    [name |-> Some(<<"J","o","h","n"," ","D","o","e">>), skills |-> <<Sk_Python, Sk_AWS>>,
     experience_years |-> Some(PyInt(5)), education |-> <<Edu(Dg_Master)>>,
     summary |-> Some(<<"P","y","t","h","o","n"," ","a","n","d"," ","A","W","S"," ","e","n","g","i","n","e","e","r">>)]
\* the same fields under another name, the years a float: the same scores
\* as R_John
R_Joan ==
    [name |-> Some(<<"J","o","a","n"," ","D","o","e">>), skills |-> <<Sk_Python, Sk_AWS>>,
     experience_years |-> Some(PyFloat(5)), education |-> <<Edu(Dg_Master)>>,
     summary |-> Some(<<"P","y","t","h","o","n"," ","a","n","d"," ","A","W","S"," ","e","n","g","i","n","e","e","r">>)]
R_Jane ==
    [name |-> Some(<<"J","a","n","e"," ","S","m","i","t","h">>), skills |-> <<Sk_Java>>,
     experience_years |-> Some(PyFloat(2)), education |-> <<Edu(Dg_BachelorMath)>>]

Resumes == {R_Empty, R_NameOnly, R_Blank, R_John, R_Joan, R_Jane}
\* the candidates of a batch
BatchResumes == {R_Empty, R_John, R_Joan, R_Jane}
\* the job descriptions of a batch
BatchJobs == {JD_Empty, JD_Python, JD_Senior}

\* the requirement overrides of score_resume
SkillOverrides == {None, Some(<<>>), Some(<<Sk_Python, Sk_Docker>>)}
ExperienceOverrides == {None, Some(PyInt(0)), Some(PyInt(3)), Some(PyFloat(3))}
DegreeOverrides == {None, Some(Rq_Master)}

\* the overrides of batch_score_resumes: none, or all three
BatchOverrides ==
    {<<None, None, None>>,
     <<Some(<<Sk_Python, Sk_Docker>>), Some(PyInt(3)), Some(Rq_Master)>>}

Years == {None} \cup {Some(PyInt(y)) : y \in 0..MaxYears} \cup {Some(PyFloat(y)) : y \in 0..MaxYears}

SeqsUpTo(S, n) == UNION {[1..k -> S] : k \in 0..n}

-----------------------------------------------------------------------------
(* ResumeScorer._calculate_skill_match_score (scoring.py 194-230)          *)

\* a normalisation that forgets .strip()
Normalize_unstripped(skill) == Lower(skill)

Normalize(skill) == Strip(Lower(skill))

\* a list in every order list(a_set) may produce
ListsOf(S) ==
    {l \in [1..Cardinality(S) -> S] : \A i, j \in DOMAIN l : l[i] = l[j] => i = j}

SkillMatch(resume_skills, required_skills) ==
    IF required_skills = <<>>
    THEN [score |-> ROne, matched_skills |-> <<>>, missing |-> {}]
    ELSE
        LET resume_skills_normalized == {Normalize(s) : s \in Range(resume_skills)}
            required_skills_normalized == {Normalize(s) : s \in Range(required_skills)}
            matched == resume_skills_normalized \cap required_skills_normalized
            missing == required_skills_normalized \ resume_skills_normalized
            score == IF Cardinality(required_skills_normalized) = 0 THEN ROne
                     ELSE Rat(Cardinality(matched),
                              Cardinality(required_skills_normalized))
        IN  [score |-> score,
             matched_skills |-> SelectSeq(resume_skills,
                                    LAMBDA s : Normalize(s) \in matched),
             missing |-> missing]

\* every (score, matched_skills, missing_skills) the call may return:
\* missing_skills is list(missing), a list of a set of str
_calculate_skill_match_score(resume_skills, required_skills) ==
    LET m == SkillMatch(resume_skills, required_skills)
    IN  {<<m.score, m.matched_skills, l>> : l \in ListsOf(m.missing)}

-----------------------------------------------------------------------------
(* ResumeScorer._calculate_experience_score (scoring.py 232-262)           *)

BonusCap == Rat(2, 10)

\* a scorer that takes a candidate without experience data for a full match
_calculate_experience_score_nodata(resume_experience, required_experience) ==
    IF IsNone(required_experience) \/ Val(required_experience).value = 0 THEN ROne
    ELSE IF IsNone(resume_experience) THEN ROne
    ELSE
        LET c == Val(resume_experience).value
            r == Val(required_experience).value
        IN  IF c >= r THEN ROne ELSE Rat(c, r)

_calculate_experience_score(resume_experience, required_experience) ==
    IF IsNone(required_experience) \/ Val(required_experience).value = 0 THEN ROne
    ELSE IF IsNone(resume_experience) THEN RZero
    ELSE
        LET c == Val(resume_experience).value
            r == Val(required_experience).value
        IN  IF c >= r
            THEN LET excess == RMin(Rat(c - r, r), BonusCap)
                 IN  RMin(ROne, RAdd(ROne, excess))
            ELSE Rat(c, r)

-----------------------------------------------------------------------------
(* ResumeScorer._calculate_education_score (scoring.py 264-324)            *)

degree_hierarchy == <<
    << <<"p","h","d">>, <<4, 1>> >>,
    << <<"d","o","c","t","o","r","a","t","e">>, <<4, 1>> >>,
    << <<"p","h",".","d">>, <<4, 1>> >>,
    << <<"d","o","c","t","o","r">>, <<4, 1>> >>,
    << <<"m","a","s","t","e","r">>, <<3, 1>> >>,
    << <<"m","s">>, <<3, 1>> >>,
    << <<"m",".","s">>, <<3, 1>> >>,
    << <<"m","a">>, <<3, 1>> >>,
    << <<"m",".","a">>, <<3, 1>> >>,
    << <<"m","b","a">>, <<3, 1>> >>,
    << <<"b","a","c","h","e","l","o","r">>, <<2, 1>> >>,
    << <<"b","s">>, <<2, 1>> >>,
    << <<"b",".","s">>, <<2, 1>> >>,
    << <<"b","a">>, <<2, 1>> >>,
    << <<"b",".","a">>, <<2, 1>> >>,
    << <<"a","s","s","o","c","i","a","t","e">>, <<1, 1>> >>,
    << <<"d","i","p","l","o","m","a">>, <<1, 2>> >>,
    << <<"c","e","r","t","i","f","i","c","a","t","e">>, <<3, 10>> >>
>>

\* the loop of lines 310-313: the level of the first key, in the order of
\* the dict, that occurs in the required degree
RequiredLevel(required_degree) ==
    LET required_normalized == Strip(Lower(required_degree))
        hits == {i \in DOMAIN degree_hierarchy :
                    Contains(degree_hierarchy[i][1], required_normalized)}
    IN  IF hits = {} THEN RZero
        ELSE LET first == CHOOSE i \in hits : \A j \in hits : i <= j
             IN  RMax(RZero, degree_hierarchy[first][2])

_calculate_education_score(resume_education, required_degree) ==
    IF IsNone(required_degree) \/ Val(required_degree) = <<>> THEN ROne
    ELSE IF resume_education = <<>> THEN RZero
    ELSE
        LET required_level == RequiredLevel(Val(required_degree))
        IN  IF \E e \in DOMAIN resume_education :
                 LET degree_text == Strip(Lower(Get(resume_education[e], "degree", <<>>)))
                 IN  \E i \in DOMAIN degree_hierarchy :
                        /\ Contains(degree_hierarchy[i][1], degree_text)
                        /\ RLe(required_level, degree_hierarchy[i][2])
            THEN ROne
            ELSE RZero

-----------------------------------------------------------------------------
(* ResumeScorer._fallback_text_similarity (scoring.py 357-402)             *)

stop_words == {
    <<"t","h","e">>,
    <<"a">>,
    <<"a","n">>,
    <<"a","n","d">>,
    <<"o","r">>,
    <<"b","u","t">>,
    <<"i","n">>,
    <<"o","n">>,
    <<"a","t">>,
    <<"t","o">>,
    <<"f","o","r">>,
    <<"o","f">>,
    <<"w","i","t","h">>,
    <<"b","y">>
}

\* Python truthiness of an Optional str or of a list
Truthy(o) == ~IsNone(o) /\ Val(o) # <<>>

\* a fallback that keeps the stop words in both word sets
_fallback_text_similarity_unfiltered(resume_data, job_description) ==
    LET summary == Get(resume_data, "summary", None)
        skills == Get(resume_data, "skills", <<>>)
        resume_parts ==
            (IF Truthy(summary) THEN <<Val(summary)>> ELSE <<>>)
            \o (IF skills # <<>> THEN <<Join(skills, <<" ">>)>> ELSE <<>>)
        resume_words == WordSet(Lower(Join(resume_parts, <<" ">>)))
        jd_words == WordSet(Lower(job_description))
        union == Cardinality(resume_words \cup jd_words)
    IN  IF jd_words = {} THEN Rat(1, 2)
        ELSE IF union = 0 THEN RZero
        ELSE Rat(Cardinality(resume_words \cap jd_words), union)

_fallback_text_similarity(resume_data, job_description) ==
    LET summary == Get(resume_data, "summary", None)
        skills == Get(resume_data, "skills", <<>>)
        resume_parts ==
            (IF Truthy(summary) THEN <<Val(summary)>> ELSE <<>>)
            \o (IF skills # <<>> THEN <<Join(skills, <<" ">>)>> ELSE <<>>)
        resume_text == Lower(Join(resume_parts, <<" ">>))
        jd_text == Lower(job_description)
        resume_words == WordSet(resume_text) \ stop_words
        jd_words == WordSet(jd_text) \ stop_words
        intersection == Cardinality(resume_words \cap jd_words)
        union == Cardinality(resume_words \cup jd_words)
    IN  IF jd_words = {} THEN Rat(1, 2)
        ELSE IF union = 0 THEN RZero
        ELSE Rat(intersection, union)

-----------------------------------------------------------------------------
(* ResumeScorer._extract_skills_from_text (scoring.py 404-449)             *)

skill_database == <<
    <<"p","y","t","h","o","n">>,
    <<"j","a","v","a">>,
    <<"j","a","v","a","s","c","r","i","p","t">>,
    <<"t","y","p","e","s","c","r","i","p","t">>,
    <<"c","+","+">>,
    <<"c","#">>,
    <<"r","u","b","y">>,
    <<"g","o">>,
    <<"r","u","s","t">>,
    <<"p","h","p">>,
    <<"s","w","i","f","t">>,
    <<"k","o","t","l","i","n">>,
    <<"s","c","a","l","a">>,
    <<"r">>,
    <<"m","a","t","l","a","b">>,
    <<"p","e","r","l">>,
    <<"r","e","a","c","t">>,
    <<"a","n","g","u","l","a","r">>,
    <<"v","u","e">>,
    <<"d","j","a","n","g","o">>,
    <<"f","l","a","s","k">>,
    <<"s","p","r","i","n","g">>,
    <<"e","x","p","r","e","s","s">>,
    <<"n","o","d","e",".","j","s">>,
    <<"n","e","x","t",".","j","s">>,
    <<"f","a","s","t","a","p","i">>,
    <<"a","s","p",".","n","e","t">>,
    <<"l","a","r","a","v","e","l">>,
    <<"s","q","l">>,
    <<"m","y","s","q","l">>,
    <<"p","o","s","t","g","r","e","s","q","l">>,
    <<"m","o","n","g","o","d","b">>,
    <<"r","e","d","i","s">>,
    <<"e","l","a","s","t","i","c","s","e","a","r","c","h">>,
    <<"d","y","n","a","m","o","d","b">>,
    <<"c","a","s","s","a","n","d","r","a">>,
    <<"o","r","a","c","l","e">>,
    <<"s","q","l","i","t","e">>,
    <<"a","w","s">>,
    <<"a","z","u","r","e">>,
    <<"g","c","p">>,
    <<"d","o","c","k","e","r">>,
    <<"k","u","b","e","r","n","e","t","e","s">>,
    <<"j","e","n","k","i","n","s">>,
    <<"t","e","r","r","a","f","o","r","m">>,
    <<"a","n","s","i","b","l","e">>,
    <<"c","i","/","c","d">>,
    <<"g","i","t">>,
    <<"g","i","t","h","u","b">>,
    <<"g","i","t","l","a","b">>,
    <<"m","a","c","h","i","n","e"," ","l","e","a","r","n","i","n","g">>,
    <<"d","e","e","p"," ","l","e","a","r","n","i","n","g">>,
    <<"n","l","p">>,
    <<"c","o","m","p","u","t","e","r"," ","v","i","s","i","o","n">>,
    <<"t","e","n","s","o","r","f","l","o","w">>,
    <<"p","y","t","o","r","c","h">>,
    <<"s","c","i","k","i","t","-","l","e","a","r","n">>,
    <<"p","a","n","d","a","s">>,
    <<"n","u","m","p","y">>,
    <<"s","p","a","r","k">>,
    <<"h","a","d","o","o","p">>,
    <<"k","a","f","k","a">>,
    <<"a","g","i","l","e">>,
    <<"s","c","r","u","m">>,
    <<"j","i","r","a">>,
    <<"r","e","s","t"," ","a","p","i">>,
    <<"g","r","a","p","h","q","l">>,
    <<"m","i","c","r","o","s","e","r","v","i","c","e","s">>,
    <<"t","e","s","t","i","n","g">>,
    <<"u","n","i","t"," ","t","e","s","t","i","n","g">>,
    <<"t","d","d">>
>>

_extract_skills_from_text(text) ==
    LET text_lower == Lower(text)
        found == SelectSeq(skill_database, LAMBDA skill : Contains(skill, text_lower))
    IN  [i \in 1..Len(found) |-> Title(found[i])]

-----------------------------------------------------------------------------
(* ResumeScorer._extract_required_experience (scoring.py 451-476)          *)

CharAt(s, i) == IF i >= 1 /\ i <= Len(s) THEN s[i] ELSE ""

\* the first position at or after i that holds no white space: where \s*
\* stops
SkipSpaces(s, i) ==
    LET stops == {j \in i..(Len(s) + 1) : ~IsSpace(CharAt(s, j))}
    IN  CHOOSE j \in stops : \A k \in stops : j <= k

\* the last position of the run of digits that starts at i: where (\d+) stops
DigitRunEnd(s, i) ==
    LET stops == {j \in i..Len(s) : ~IsDigit(CharAt(s, j + 1))}
    IN  CHOOSE j \in stops : \A k \in stops : j <= k

\* (\d+)\+?\s*years? matched at i: the position after it, or 0
YearsEnd(s, i) ==
    IF ~IsDigit(CharAt(s, i)) THEN 0
    ELSE
        LET e == DigitRunEnd(s, i)
            k == IF CharAt(s, e + 1) = "+" THEN e + 2 ELSE e + 1
            m == SkipSpaces(s, k)
        IN  IF ~MatchAt(<<"y","e","a","r">>, s, m) THEN 0
            ELSE IF CharAt(s, m + 4) = "s" THEN m + 5 ELSE m + 4

\* \s+ matched at i: the position after it, or 0
SpacesEnd(s, i) ==
    IF i >= 1 /\ IsSpace(CharAt(s, i)) THEN SkipSpaces(s, i) ELSE 0

\* (\d+)\+?\s*years?\s+(?:of\s+)?experience
Pattern1At(s, i) ==
    LET p == SpacesEnd(s, YearsEnd(s, i))
        q == IF MatchAt(<<"o","f">>, s, p) THEN SpacesEnd(s, p + 2) ELSE 0
    IN  /\ p > 0
        /\ \/ q > 0 /\ MatchAt(<<"e","x","p","e","r","i","e","n","c","e">>, s, q)
           \/ MatchAt(<<"e","x","p","e","r","i","e","n","c","e">>, s, p)

\* the position of the digits of experience[:\s]+(\d+)\+?\s*years? matched
\* at i, or 0
Pattern2Digits(s, i) ==
    IF ~MatchAt(<<"e","x","p","e","r","i","e","n","c","e">>, s, i) THEN 0
    ELSE
        LET stops == {j \in (i + 10)..(Len(s) + 1) :
                        ~(IsSpace(CharAt(s, j)) \/ CharAt(s, j) = ":")}
            j == CHOOSE x \in stops : \A y \in stops : x <= y
        IN  IF j > i + 10 /\ YearsEnd(s, j) > 0 THEN j ELSE 0

\* minimum\s+(?:of\s+)?(\d+)\+?\s*years?
Pattern3Digits(s, i) ==
    IF ~MatchAt(<<"m","i","n","i","m","u","m">>, s, i) THEN 0
    ELSE
        LET p == SpacesEnd(s, i + 7)
            q == IF p > 0 /\ MatchAt(<<"o","f">>, s, p) THEN SpacesEnd(s, p + 2) ELSE 0
        IN  IF q > 0 /\ YearsEnd(s, q) > 0 THEN q
            ELSE IF p > 0 /\ YearsEnd(s, p) > 0 THEN p
            ELSE 0

\* at\s+least\s+(\d+)\+?\s*years?
Pattern4Digits(s, i) ==
    IF ~MatchAt(<<"a","t">>, s, i) THEN 0
    ELSE
        LET p == SpacesEnd(s, i + 2)
            q == IF p > 0 /\ MatchAt(<<"l","e","a","s","t">>, s, p) THEN SpacesEnd(s, p + 5) ELSE 0
        IN  IF q > 0 /\ YearsEnd(s, q) > 0 THEN q ELSE 0

\* the digits of the leftmost match, as a number: float(matches[0])
FirstGroup(s, starts) ==
    LET i == CHOOSE x \in starts : \A y \in starts : x <= y
    IN  TextToInt(SubSeq(s, i, DigitRunEnd(s, i)))

_extract_required_experience(text) ==
    LET text_lower == Lower(text)
        pos == 1..Len(text_lower)
        m1 == {i \in pos : Pattern1At(text_lower, i)}
        m2 == {Pattern2Digits(text_lower, i) : i \in pos} \ {0}
        m3 == {Pattern3Digits(text_lower, i) : i \in pos} \ {0}
        m4 == {Pattern4Digits(text_lower, i) : i \in pos} \ {0}
    IN  IF m1 # {} THEN Some(PyFloat(FirstGroup(text_lower, m1)))
        ELSE IF m2 # {} THEN Some(PyFloat(FirstGroup(text_lower, m2)))
        ELSE IF m3 # {} THEN Some(PyFloat(FirstGroup(text_lower, m3)))
        ELSE IF m4 # {} THEN Some(PyFloat(FirstGroup(text_lower, m4)))
        ELSE None

-----------------------------------------------------------------------------
(* ResumeScorer._extract_required_degree (scoring.py 478-512)              *)

degree_keywords == <<
    << <<"p","h","d">>, << <<"p","h","d">>,
        <<"p","h",".","d">>,
        <<"d","o","c","t","o","r","a","t","e">>,
        <<"d","o","c","t","o","r","a","l">> >> >>,
    << <<"m","a","s","t","e","r">>, << <<"m","a","s","t","e","r">>,
        <<"m","a","s","t","e","r","s">>,
        <<"m","s">>,
        <<"m",".","s">>,
        <<"m","a">>,
        <<"m",".","a">>,
        <<"m","b","a">> >> >>,
    << <<"b","a","c","h","e","l","o","r">>, << <<"b","a","c","h","e","l","o","r">>,
        <<"b","a","c","h","e","l","o","r","s">>,
        <<"b","s">>,
        <<"b",".","s">>,
        <<"b","a">>,
        <<"b",".","a">> >> >>
>>

\* the regular expression pat, a run of characters in which "." stands for
\* any character but a newline, matched at i
RegexAt(pat, s, i) ==
    /\ i >= 1
    /\ i + Len(pat) - 1 <= Len(s)
    /\ \A k \in 1..Len(pat) :
          IF pat[k] = "." THEN s[i + k - 1] # "\n" ELSE s[i + k - 1] = pat[k]

\* re.search(a + '.*' + b, s): a, then any run without a newline, then b
SearchThen(a, b, s) ==
    \E i \in 1..Len(s) : \E j \in (i + Len(a))..(Len(s) + 1) :
        /\ RegexAt(a, s, i)
        /\ RegexAt(b, s, j)
        /\ \A k \in (i + Len(a))..(j - 1) : s[k] # "\n"

\* the four context_patterns of a keyword; the optional [ds] after
\* "require" is absorbed by the .* that follows it, or ends the match
MarkedRequired(keyword, s) ==
    \/ SearchThen(<<"r","e","q","u","i","r","e">>, keyword, s)
    \/ SearchThen(keyword, <<"r","e","q","u","i","r","e">>, s)
    \/ SearchThen(<<"m","u","s","t"," ","h","a","v","e">>, keyword, s)
    \/ SearchThen(keyword, <<"d","e","g","r","e","e">>, s)

\* str.capitalize()
Capitalize(s) ==
    [i \in 1..Len(s) |-> IF i = 1 THEN UpperChar(s[i]) ELSE LowerChar(s[i])]

_extract_required_degree(text) ==
    LET text_lower == Lower(text)
        hits == {d \in DOMAIN degree_keywords :
                    \E k \in DOMAIN degree_keywords[d][2] :
                        /\ Contains(degree_keywords[d][2][k], text_lower)
                        /\ MarkedRequired(degree_keywords[d][2][k], text_lower)}
    IN  IF hits = {} THEN None
        ELSE LET first == CHOOSE d \in hits : \A e \in hits : d <= e
             IN  Some(Capitalize(degree_keywords[first][1]))

-----------------------------------------------------------------------------
(* The pure functions above, tabulated once over the inputs of the model:  *)
(* score_resume below reads the tables where the code calls the functions. *)

JobRequirement ==
    [j \in JobDescriptions |->
        [required_skills |-> _extract_skills_from_text(j),
         required_experience |-> _extract_required_experience(j),
         required_degree |-> _extract_required_degree(j)]] @@ <<>>

\* the degree requirements a call of score_resume may work with
DegreeRequirements ==
    DegreeOverrides \cup {JobRequirement[j].required_degree : j \in JobDescriptions}

EducationTable ==
    [e \in {Get(r, "education", <<>>) : r \in Resumes}, d \in DegreeRequirements |->
        _calculate_education_score(e, d)] @@ <<>>

FallbackTable ==
    [r \in Resumes, j \in JobDescriptions |->
        _fallback_text_similarity(r, j)] @@ <<>>

-----------------------------------------------------------------------------
(* EmbeddingsManager, as far as the scorer calls it (embeddings.py)        *)

\* create_resume_text (embeddings.py 171-205)
create_resume_text(resume_data) ==
    LET name == Get(resume_data, "name", None)
        summary == Get(resume_data, "summary", None)
        skills == Get(resume_data, "skills", <<>>)
        years == Get(resume_data, "experience_years", None)
        education == Get(resume_data, "education", <<>>)
        parts ==
            (IF Truthy(name) THEN <<<<"N","a","m","e",":"," ">> \o Val(name)>> ELSE <<>>)
            \o (IF Truthy(summary) THEN <<<<"S","u","m","m","a","r","y",":"," ">> \o Val(summary)>> ELSE <<>>)
            \o (IF skills # <<>>
                THEN <<<<"S","k","i","l","l","s",":"," ">> \o Join(skills, <<",", " ">>)>> ELSE <<>>)
            \o (IF ~IsNone(years) /\ Val(years).value # 0
                THEN <<<<"E","x","p","e","r","i","e","n","c","e",":"," ">> \o NumText(Val(years)) \o <<" ","y","e","a","r","s">>>>
                ELSE <<>>)
            \o [i \in 1..Len(education) |->
                    <<"E","d","u","c","a","t","i","o","n",":"," ">> \o Get(education[i], "degree", <<>>)]
    IN  Join(parts, <<" ", "|", " ">>)

\* The vectors the sentence-transformer model may produce.  The library is
\* not part of the repository: a model is any deterministic map from text
\* to non-zero vectors.  Each vector here has an integer norm, so that its
\* cosines are rational.
EmbeddingSpace == << <<3, 4>>, <<4, 3>>, <<-3, 4>>, <<5, 0>>, <<-4, -3>>, <<0, -5>> >>

\* SentenceTransformer.encode of generate_embedding(s) (embeddings.py
\* 145-169) for the model loaded in __init__: the same text always gives the
\* same vector
encode(model, text) ==
    EmbeddingSpace[((Len(text) * model + Cardinality(Range(text))) % Len(EmbeddingSpace)) + 1]

Dot(a, b) == a[1] * b[1] + a[2] * b[2]

\* numpy.linalg.norm of a vector of EmbeddingSpace
Norm(a) == CHOOSE n \in 0..Dot(a, a) : n * n = Dot(a, a)

\* _cosine_similarity (embeddings.py 480-483)
_cosine_similarity(a, b) == Rat(Dot(a, b), Norm(a) * Norm(b))

\* compare_resume_to_job (embeddings.py 426-452)
compare_resume_to_job(em, resume_data, job_description) ==
    LET resume_text == create_resume_text(resume_data)
        resume_emb == encode(em.model, resume_text)
        job_emb == encode(em.model, job_description)
    IN  _cosine_similarity(resume_emb, job_emb)

CompareTable ==
    [m \in EmbeddingModels, r \in Resumes, j \in JobDescriptions |->
        compare_resume_to_job([model |-> m], r, j)] @@ <<>>

-----------------------------------------------------------------------------
(* ResumeScorer._calculate_semantic_similarity_score (scoring.py 326-355)  *)

\* self.embeddings_manager.compare_resume_to_job(...) as the scorer sees it:
\* em_raises says whether the call raises (the model or the backend
\* failing), which is up to the environment
CallCompare(em, resume_data, job_description, em_raises) ==
    IF em_raises THEN Raise("Exception")
    ELSE Returned(CompareTable[em.model, resume_data, job_description])

_calculate_semantic_similarity_score(self, resume_data, job_description, em_raises) ==
    IF IsNone(self.embeddings_manager)
    THEN Returned(FallbackTable[resume_data, job_description])
    ELSE
        LET score == CallCompare(Val(self.embeddings_manager),
                                 resume_data, job_description, em_raises)
        IN  IF score.outcome = "raised"
            THEN \* except Exception
                 Returned(FallbackTable[resume_data, job_description])
            ELSE score

-----------------------------------------------------------------------------
(* Python floats                                                           *)

\* The final scores are Python floats, IEEE 754 doubles: a product or a sum
\* of two doubles is rounded again, so that 0.94 - 0.34 is below 0.6 and
\* 0.25 * 0.8 + 0.15 + 0.25 * 0.2 is below 0.4.  A non-negative double is
\* zero (no digits), or 2^(exp - 52) times its significand of 53 bits, held
\* as five digits of 13 bits, the first of them 1.
Radix == 2 ^ 13

\* p / q > 0 as <<P, Q, e>> with 1 <= P / Q < 2 and p / q = P / Q * 2^e
RECURSIVE Normalised(_, _, _)
Normalised(p, q, e) ==
    IF p < q THEN Normalised(2 * p, q, e - 1)
    ELSE IF p >= 2 * q THEN Normalised(p, 2 * q, e + 1)
    ELSE <<p, q, e>>

Zeros(n) == [i \in 1..n |-> 0]

\* a < b of two numbers of as many digits
Less(a, b) ==
    \E i \in DOMAIN a : a[i] < b[i] /\ \A j \in 1..(i - 1) : a[j] = b[j]

\* digits * 2^shift, shift < 13, one digit longer
Scaled(digits, shift) ==
    LET wide == <<0>> \o digits \o <<0>>
    IN  [i \in 1..(Len(digits) + 1) |->
            ((wide[i] * (2 ^ shift)) % Radix) + ((wide[i + 1] * (2 ^ shift)) \div Radix)]

\* digits \div 2^shift, shift < 13
Halved(digits, shift) ==
    LET wide == <<0>> \o digits
    IN  [i \in 1..Len(digits) |->
            (wide[i + 1] \div (2 ^ shift)) + ((wide[i] % (2 ^ shift)) * (2 ^ (13 - shift)))]

\* a - b of two numbers of as many digits, a >= b: a digit lends to the
\* digits after it when they are less than those of b
Minus(a, b) ==
    LET n == Len(a)
        borrow(i) == IF Less(SubSeq(a, i + 1, n), SubSeq(b, i + 1, n)) THEN 1 ELSE 0
    IN  [i \in 1..n |-> (a[i] - b[i] - borrow(i) + Radix) % Radix]

\* digits + 1: the carry reaches a digit when every digit after it is full
Plus1(digits) ==
    LET n == Len(digits)
    IN  [i \in 1..n |->
            IF \A j \in (i + 1)..n : digits[j] = Radix - 1
            THEN IF i = 1 THEN digits[i] + 1 ELSE (digits[i] + 1) % Radix
            ELSE digits[i]]

\* the bits of a digit
BitLength(digit) == CHOOSE k \in 0..13 : digit < (2 ^ k) /\ (k = 0 \/ (2 ^ (k - 1)) <= digit)

\* bit k of a number, bit 0 the least significant
Bit(digits, k) == (digits[Len(digits) - (k \div 13)] \div (2 ^ (k % 13))) % 2

\* the last n digits
Last(digits, n) == SubSeq(digits, Len(digits) - n + 1, Len(digits))

\* the double of a significand, moved away from zero by one unit in the
\* last place when the rounding says so
Rounded(e, significand, away) ==
    IF ~away THEN [exp |-> e, digits |-> significand]
    ELSE
        LET inc == Plus1(significand)
        IN  IF inc[1] = 2 THEN [exp |-> e + 1, digits |-> <<1, 0, 0, 0, 0>>]
            ELSE [exp |-> e, digits |-> inc]

DZero == [exp |-> 0, digits |-> <<>>]

\* long division by q, a few bits at a time: from <<a, r>> to
\* <<a * 2^bits + (r * 2^bits) \div q, (r * 2^bits) % q>>
DivStep(ar, q, bits) ==
    <<(ar[1] * (2 ^ bits)) + ((ar[2] * (2 ^ bits)) \div q), (ar[2] * (2 ^ bits)) % q>>

\* a step of the division, its dividend evaluated once
Step(ar, q, bits) == CHOOSE next \in {DivStep(at, q, bits) : at \in {ar}} : TRUE

\* the next digit of r / q, r < q < 2^28, and what is left: the steps are
\* as long as the 32 bits of an integer allow
NextDigit(r, q) ==
    IF q < 2 ^ 26 THEN DivStep(DivStep(DivStep(<<0, r>>, q, 4), q, 4), q, 5)
    ELSE Step(Step(Step(Step(Step(<<0, r>>, q, 3), q, 3), q, 3), q, 3), q, 1)

\* the double nearest to a rational x >= 0, ties to the even significand:
\* the four digits after the leading 1, and what is left
Double(x) ==
    IF x[1] = 0 THEN DZero
    ELSE
        LET norm == Normalised(x[1], x[2], 0)
            den == norm[2]
            d1 == NextDigit(norm[1] - den, den)
            d2 == NextDigit(d1[2], den)
            d3 == NextDigit(d2[2], den)
            d4 == NextDigit(d3[2], den)
            nearer == \/ 2 * d4[2] > den
                      \/ 2 * d4[2] = den /\ (d4[1] % 2) = 1
        IN  Rounded(norm[3], <<1, d1[1], d2[1], d3[1], d4[1]>>, nearer)

\* x < y of two non-negative doubles
DLt(x, y) ==
    IF y.digits = <<>> THEN FALSE
    ELSE IF x.digits = <<>> THEN TRUE
    ELSE IF x.exp # y.exp THEN x.exp < y.exp
    ELSE Less(x.digits, y.digits)

\* a + b of two numbers of as many digits, the sum no longer than they
\* are: a digit takes a carry when the digits after it overflow
Plus(a, b) ==
    LET n == Len(a)
        carry(i) == IF \E j \in (i + 1)..n :
                            /\ a[j] + b[j] >= Radix
                            /\ \A k \in (i + 1)..(j - 1) : a[k] + b[k] = Radix - 1
                    THEN 1 ELSE 0
    IN  [i \in 1..n |-> (a[i] + b[i] + carry(i)) % Radix]

\* the double nearest to number * 2^unit, number > 0, ties to even
Nearest(number, unit) ==
    LET top == CHOOSE i \in DOMAIN number : number[i] # 0 /\ \A j \in 1..(i - 1) : number[j] = 0
        length == BitLength(number[top]) + (13 * (Len(number) - top))
        e == (unit + length) - 1
    IN  IF length <= 53
        THEN Rounded(e, Last(Scaled(number, (53 - length) % 13) \o Zeros((53 - length) \div 13), 5),
                     FALSE)
        ELSE
            LET cut == length - 53
                kept == Last(Halved(SubSeq(number, 1, Len(number) - (cut \div 13)), cut % 13), 5)
                sticky == \E k \in 0..(cut - 2) : Bit(number, k) = 1
                nearer == /\ Bit(number, cut - 1) = 1
                          /\ sticky \/ (kept[5] % 2) = 1
            IN  Rounded(e, kept, nearer)

\* the significand of x in units of the last place of y, x.exp >= y.exp,
\* and that of y at the same length
Aligned(x, y) ==
    LET d == x.exp - y.exp
    IN  <<Zeros(1) \o Scaled(x.digits, d % 13) \o Zeros(d \div 13),
          Zeros((d \div 13) + 2) \o y.digits>>

\* x - y of two doubles, x >= y >= 0: the exact difference, rounded
DSub(x, y) ==
    IF y.digits = <<>> THEN x
    ELSE IF x = y THEN DZero
    ELSE LET pair == Aligned(x, y)
         IN  Nearest(Minus(pair[1], pair[2]), y.exp - 52)

\* x + y of two doubles, x >= 0 and y >= 0: the exact sum, rounded
DAdd(x, y) ==
    IF y.digits = <<>> THEN x
    ELSE IF x.digits = <<>> THEN y
    ELSE IF x.exp >= y.exp
    THEN LET pair == Aligned(x, y)
         IN  Nearest(Plus(pair[1], pair[2]), y.exp - 52)
    ELSE LET pair == Aligned(y, x)
         IN  Nearest(Plus(pair[1], pair[2]), x.exp - 52)

\* the columns of the long multiplication of two significands: column p
\* is the sum of the products of the digits i of the one and p - i of the
\* other, below 2^29
Columns(a, b) ==
    [p \in 1..12 |->
        IF p = 1 \/ p > 10 THEN 0
        ELSE LET lo == IF p - 5 > 1 THEN p - 5 ELSE 1
                 hi == IF p - 1 < 5 THEN p - 1 ELSE 5
             IN  SumSeq([k \in 1..(hi - lo + 1) |-> a[lo + k - 1] * b[p - (lo + k - 1)]])]

\* the product of the columns: each column is split into three digits,
\* which are added where they belong
Product(column) ==
    CHOOSE number \in
        {Plus(sum, [p \in 1..10 |-> column[p + 2] \div (Radix * Radix)]) :
            sum \in {Plus([p \in 1..10 |-> column[p] % Radix],
                          [p \in 1..10 |-> (column[p + 1] \div Radix) % Radix])}} : TRUE

\* x * y of two doubles, x >= 0 and y >= 0: the exact product, rounded
DMul(x, y) ==
    IF x.digits = <<>> \/ y.digits = <<>> THEN DZero
    ELSE CHOOSE product \in
            {Nearest(number, (x.exp + y.exp) - 104) :
                number \in {Product(column) : column \in {Columns(x.digits, y.digits)}}} : TRUE

\* A float is a double with its sign; zero has none, -0.0 being equal to 0.0
\* wherever the program compares it.
Signed(negative, magnitude) ==
    [negative |-> negative /\ magnitude.digits # <<>>,
     exp |-> magnitude.exp, digits |-> magnitude.digits]

Magnitude(x) == [exp |-> x.exp, digits |-> x.digits]

\* the float a rational stands for: the double nearest to it
Float(x) ==
    CHOOSE float \in {Signed(v[1] < 0, Double(<<Abs(v[1]), v[2]>>)) : v \in {x}} : TRUE

\* x < y and x <= y of two floats
FLt(x, y) ==
    IF x.negative # y.negative THEN x.negative
    ELSE IF x.negative THEN DLt(y, x)
    ELSE DLt(x, y)

FLe(x, y) == ~FLt(y, x)

FZero == [negative |-> FALSE, exp |-> 0, digits |-> <<>>]
FOne == [negative |-> FALSE, exp |-> 0, digits |-> <<1, 0, 0, 0, 0>>]

\* -x
FNeg(x) == Signed(~x.negative, x)

\* the sum of two floats that are at hand
Sum(x, y) ==
    IF x.negative = y.negative \/ x.digits = <<>> \/ y.digits = <<>>
    THEN Signed(x.negative \/ y.negative, DAdd(Magnitude(x), Magnitude(y)))
    ELSE IF DLt(x, y) THEN Signed(y.negative, DSub(Magnitude(y), Magnitude(x)))
    ELSE Signed(x.negative, DSub(Magnitude(x), Magnitude(y)))

\* x + y, x - y and x * y of two floats, each evaluated once
FAdd(x, y) == CHOOSE sum \in {Sum(u, v) : u \in {x}, v \in {y}} : TRUE

FSub(x, y) == CHOOSE difference \in {Sum(u, FNeg(v)) : u \in {x}, v \in {y}} : TRUE

FMul(x, y) ==
    CHOOSE product \in {Signed(u.negative # v.negative, DMul(u, v)) : u \in {x}, v \in {y}} : TRUE

-----------------------------------------------------------------------------
(* ResumeScorer.__init__ (scoring.py 89-116)                               *)

\* the defaults of numpy.isclose
Rtol == Rat(1, 100000)
Atol == Rat(1, 100000000)

\* abs(x)
FAbs(x) == Signed(FALSE, Magnitude(x))

\* numpy.isclose(a, b) of two floats: abs(a - b) <= atol + rtol * abs(b),
\* every operation rounded
IsClose(a, b) == FLe(FAbs(FSub(a, b)), FAdd(Float(Atol), FMul(Float(Rtol), FAbs(b))))

\* skill_weight + experience_weight + education_weight + semantic_weight,
\* added from the left as floats
total_weight(w) == FAdd(FAdd(FAdd(Float(w[1]), Float(w[2])), Float(w[3])), Float(w[4]))

\* a check that compares the sum with == instead of numpy.isclose
ValidateWeights_exact(w) ==
    IF total_weight(w) # FOne THEN Some("ValueError") ELSE None

\* the check of __init__: the error it raises, or None
ValidateWeights(w) ==
    IF ~IsClose(total_weight(w), FOne) THEN Some("ValueError") ELSE None

NewScorer(w, em) ==
    [skill_weight |-> w[1], experience_weight |-> w[2],
     education_weight |-> w[3], semantic_weight |-> w[4],
     embeddings_manager |-> em]

-----------------------------------------------------------------------------
(* ResumeScorer.score_resume (scoring.py 118-192)                          *)

\* x clamped into [0, 1]
Clamped(x) == IF x.negative THEN FZero ELSE IF FLt(FOne, x) THEN FOne ELSE x

\* a final score clamped into [0, 1]
final_score_clamped(self, skill_score, experience_score, education_score, semantic_score) ==
    CHOOSE clamped \in
        {Clamped(sum) :
            sum \in {FAdd(FAdd(FAdd(FMul(Float(self.skill_weight), Float(skill_score)),
                                    FMul(Float(self.experience_weight), Float(experience_score))),
                               FMul(Float(self.education_weight), Float(education_score))),
                          FMul(Float(self.semantic_weight), Float(semantic_score)))}} : TRUE

\* lines 171-176: the four products and their sum from left to right, each
\* of them a float
final_score(self, skill_score, experience_score, education_score, semantic_score) ==
    FAdd(FAdd(FAdd(FMul(Float(self.skill_weight), Float(skill_score)),
                   FMul(Float(self.experience_weight), Float(experience_score))),
              FMul(Float(self.education_weight), Float(education_score))),
         FMul(Float(self.semantic_weight), Float(semantic_score)))

\* breakdowns that grant the degree only to a candidate who lists some
\* education
Breakdowns_educated(self, resume_data, required_experience, skills, experience_score, education_score, semantic) ==
    IF semantic.outcome = "raised" THEN {semantic}
    ELSE
        {Returned(
           [skill_match_score |-> sk[1],
            experience_score |-> experience_score,
            education_score |-> education_score,
            semantic_similarity_score |-> semantic.value,
            final_score |-> final_score(self, sk[1], experience_score,
                                        education_score, semantic.value),
            matched_skills |-> sk[2],
            missing_skills |-> sk[3],
            experience_years |-> Get(resume_data, "experience_years", None),
            required_experience |-> required_experience,
            has_required_degree |-> RLt(RZero, education_score)
                                    /\ Get(resume_data, "education", <<>>) # <<>>]) : sk \in skills}

\* lines 179-192: every way the call may end with the component scores at
\* hand: the exception of the comparison, had nothing caught it, or a
\* ScoreBreakdown, one for each order of missing_skills
Breakdowns(self, resume_data, required_experience, skills, experience_score, education_score, semantic) ==
    IF semantic.outcome = "raised" THEN {semantic}
    ELSE
        {Returned(
           [skill_match_score |-> sk[1],
            experience_score |-> experience_score,
            education_score |-> education_score,
            semantic_similarity_score |-> semantic.value,
            final_score |-> final_score(self, sk[1], experience_score,
                                        education_score, semantic.value),
            matched_skills |-> sk[2],
            missing_skills |-> sk[3],
            experience_years |-> Get(resume_data, "experience_years", None),
            required_experience |-> required_experience,
            has_required_degree |-> RLt(RZero, education_score)]) : sk \in skills}

\* lines 149-169: the four component scores against the requirements
ScoreAgainst(self, resume_data, job_description, required_skills, required_experience, required_degree, em_raises) ==
    Breakdowns(self, resume_data, required_experience,
        _calculate_skill_match_score(
            Get(resume_data, "skills", <<>>), required_skills),
        _calculate_experience_score(
            Get(resume_data, "experience_years", None), required_experience),
        EducationTable[Get(resume_data, "education", <<>>), required_degree],
        _calculate_semantic_similarity_score(
            self, resume_data, job_description, em_raises))

\* lines 139-147: a requirement the caller leaves out is extracted from the
\* job description
WithRequirements(self, resume_data, job_description, extracted, required_skills, required_experience, required_degree, em_raises) ==
    ScoreAgainst(self, resume_data, job_description,
        IF IsNone(required_skills) THEN extracted.required_skills
        ELSE Val(required_skills),
        IF IsNone(required_experience) THEN extracted.required_experience
        ELSE required_experience,
        IF IsNone(required_degree) THEN extracted.required_degree
        ELSE required_degree,
        em_raises)

score_resume(self, resume_data, job_description, required_skills, required_experience, required_degree, em_raises) ==
    WithRequirements(self, resume_data, job_description,
        JobRequirement[job_description],
        required_skills, required_experience, required_degree, em_raises)

-----------------------------------------------------------------------------
(* ResumeScorer.batch_score_resumes (scoring.py 737-773)                   *)

\* a descending sort that is not stable: an item goes in front of the
\* earlier items whose key equals its own
RECURSIVE SortByFinalScoreDesc_unstable(_)
SortByFinalScoreDesc_unstable(items) ==
    IF items = <<>> THEN <<>>
    ELSE
        LET init == SortByFinalScoreDesc_unstable(SubSeq(items, 1, Len(items) - 1))
            x == items[Len(items)]
            ahead == {i \in 1..Len(init) :
                        FLt(x[2].final_score, init[i][2].final_score)}
            n == Cardinality(ahead)
        IN  SubSeq(init, 1, n) \o <<x>> \o SubSeq(init, n + 1, Len(init))

\* list.sort(key=lambda x: x[1].final_score, reverse=True): descending by
\* key, and stable: items whose keys are equal keep their order
RECURSIVE SortByFinalScoreDesc(_)
SortByFinalScoreDesc(items) ==
    IF items = <<>> THEN <<>>
    ELSE
        LET init == SortByFinalScoreDesc(SubSeq(items, 1, Len(items) - 1))
            x == items[Len(items)]
            \* x goes behind every item whose key is not below its own
            ahead == {i \in 1..Len(init) :
                        FLe(x[2].final_score, init[i][2].final_score)}
            n == Cardinality(ahead)
        IN  SubSeq(init, 1, n) \o <<x>> \o SubSeq(init, n + 1, Len(init))

\* a loop that carries the breakdown of the candidate before into the
\* pair of the next one
ScoredNext_carrying(before, resume, last) ==
    {o \in before : o.outcome = "raised"}
    \cup {b \in last : b.outcome = "raised"
                       /\ \E o \in before : o.outcome = "returned"}
    \cup {Returned(p[1].value \o << <<resume,
                IF p[1].value = <<>> THEN p[2].value
                ELSE p[1].value[Len(p[1].value)][2]>> >>) :
            p \in {q \in before \X last :
                     q[1].outcome = "returned" /\ q[2].outcome = "returned"}}

\* one turn of the loop of lines 760-768: `before` are the ways the turns
\* before it may have ended, `last` the ways score_resume may end
ScoredNext(before, resume, last) ==
    {o \in before : o.outcome = "raised"}
    \cup {b \in last : b.outcome = "raised"
                       /\ \E o \in before : o.outcome = "returned"}
    \cup {Returned(p[1].value \o << <<resume, p[2].value>> >>) :
            p \in {q \in before \X last :
                     q[1].outcome = "returned" /\ q[2].outcome = "returned"}}

\* the ways the loop of lines 760-768 may end: an exception of score_resume,
\* or the list scored_resumes
RECURSIVE ScoredLists(_, _, _, _, _, _, _)
ScoredLists(self, resumes, job_description, required_skills, required_experience, required_degree, em_raises) ==
    IF resumes = <<>> THEN {Returned(<<>>)}
    ELSE
        ScoredNext(
            ScoredLists(self, SubSeq(resumes, 1, Len(resumes) - 1), job_description,
                required_skills, required_experience, required_degree,
                SubSeq(em_raises, 1, Len(resumes) - 1)),
            resumes[Len(resumes)],
            score_resume(self, resumes[Len(resumes)], job_description,
                required_skills, required_experience, required_degree,
                em_raises[Len(resumes)]))

\* every way the call may end; em_raises[i]: whether the comparison raises
\* for resumes[i]
batch_score_resumes(self, resumes, job_description, required_skills, required_experience, required_degree, em_raises) ==
    {IF l.outcome = "raised" THEN l ELSE Returned(SortByFinalScoreDesc(l.value)) :
        l \in ScoredLists(self, resumes, job_description,
                  required_skills, required_experience, required_degree, em_raises)}

-----------------------------------------------------------------------------
(* The session: one scorer, called by a single-threaded caller             *)

NoScorer == None

NoManager == None

\* an empty table that has received no request
EmptyTable == [resume_analyses |-> <<>>, ids |-> <<>>, requests |-> <<>>, deleted |-> {}]

\* the process starts.  Only _upsert_faiss calls hash(); the sessions of
\* the index start from IndexInit, under any of the secrets, and the order
\* in which a set of strs is listed is a choice of its own where the scorer
\* lists one
Init ==
    /\ scorer = NoScorer
    /\ manager = NoManager
    /\ supabase = EmptyTable
    /\ hash_secret = "0"
    /\ pc = "idle"
    /\ call = [op |-> "none"]
    /\ result = None
    /\ session = None

\* ResumeScorer(skill_weight, ..., embeddings_manager): the session keeps
\* the new scorer unless __init__ raises
Construct(w, em) ==
    /\ pc = "idle"
    /\ call' = [op |-> "__init__", weights |-> w, embeddings_manager |-> em]
    /\ IF ~IsNone(ValidateWeights(w))
       THEN /\ result' = Some(Raise(Val(ValidateWeights(w))))
            /\ UNCHANGED scorer
       ELSE /\ result' = Some(Returned(NewScorer(w, em)))
            /\ scorer' = Some(NewScorer(w, em))
    /\ pc' = "done"
    /\ UNCHANGED <<supabase, hash_secret, session>>
    /\ UNCHANGED manager

HasManager == ~IsNone(scorer) /\ ~IsNone(Val(scorer).embeddings_manager)

ScoreResume(resume_data, job_description, required_skills, required_experience, required_degree, em_raises) ==
    /\ pc = "idle"
    /\ ~IsNone(scorer)
    /\ em_raises => HasManager
    /\ call' = [op |-> "score_resume", resume_data |-> resume_data,
                job_description |-> job_description,
                required_skills |-> required_skills,
                required_experience |-> required_experience,
                required_degree |-> required_degree, em_raises |-> em_raises]
    /\ \E o \in score_resume(Val(scorer), resume_data, job_description,
                    required_skills, required_experience, required_degree, em_raises) :
          result' = Some(o)
    /\ pc' = "done"
    /\ UNCHANGED <<supabase, hash_secret, session>>
    /\ UNCHANGED <<scorer, manager>>

BatchScoreResumes(resumes, job_description, overrides, em_raises) ==
    /\ pc = "idle"
    /\ ~IsNone(scorer)
    /\ (\E i \in DOMAIN em_raises : em_raises[i]) => HasManager
    /\ call' = [op |-> "batch_score_resumes", resumes |-> resumes,
                job_description |-> job_description,
                required_skills |-> overrides[1],
                required_experience |-> overrides[2],
                required_degree |-> overrides[3], em_raises |-> em_raises]
    /\ \E o \in batch_score_resumes(Val(scorer), resumes, job_description,
                    overrides[1], overrides[2], overrides[3], em_raises) :
          result' = Some(o)
    /\ pc' = "done"
    /\ UNCHANGED <<supabase, hash_secret, session>>
    /\ UNCHANGED <<scorer, manager>>

\* the component methods, called on their own as test_scoring.py does
CalculateSkillMatchScore(resume_skills, required_skills) ==
    /\ pc = "idle"
    /\ ~IsNone(scorer)
    /\ call' = [op |-> "_calculate_skill_match_score",
                resume_skills |-> resume_skills, required_skills |-> required_skills]
    /\ \E t \in _calculate_skill_match_score(resume_skills, required_skills) :
          result' = Some(Returned(t))
    /\ pc' = "done"
    /\ UNCHANGED <<supabase, hash_secret, session>>
    /\ UNCHANGED <<scorer, manager>>

CalculateExperienceScore(resume_experience, required_experience) ==
    /\ pc = "idle"
    /\ ~IsNone(scorer)
    /\ call' = [op |-> "_calculate_experience_score",
                resume_experience |-> resume_experience,
                required_experience |-> required_experience]
    /\ result' = Some(Returned(
            _calculate_experience_score(resume_experience, required_experience)))
    /\ pc' = "done"
    /\ UNCHANGED <<supabase, hash_secret, session>>
    /\ UNCHANGED <<scorer, manager>>

CalculateEducationScore(resume_education, required_degree) ==
    /\ pc = "idle"
    /\ ~IsNone(scorer)
    /\ call' = [op |-> "_calculate_education_score",
                resume_education |-> resume_education,
                required_degree |-> required_degree]
    /\ result' = Some(Returned(
            _calculate_education_score(resume_education, required_degree)))
    /\ pc' = "done"
    /\ UNCHANGED <<supabase, hash_secret, session>>
    /\ UNCHANGED <<scorer, manager>>

FallbackTextSimilarity(resume_data, job_description) ==
    /\ pc = "idle"
    /\ ~IsNone(scorer)
    /\ call' = [op |-> "_fallback_text_similarity",
                resume_data |-> resume_data, job_description |-> job_description]
    /\ result' = Some(Returned(_fallback_text_similarity(resume_data, job_description)))
    /\ pc' = "done"
    /\ UNCHANGED <<supabase, hash_secret, session>>
    /\ UNCHANGED <<scorer, manager>>

\* the caller takes the value (or the exception) and the session is idle again
Return ==
    /\ pc = "done"
    /\ pc' = "idle"
    /\ UNCHANGED <<supabase, hash_secret, session>>
    /\ call' = [op |-> "none"]
    /\ result' = None
    /\ UNCHANGED <<scorer, manager>>

Next ==
    \/ /\ pc = "idle"
       /\ \E w \in WeightSets, em \in Managers : Construct(w, em)
    \/ /\ pc = "idle"
       /\ \E r \in Resumes, j \in JobDescriptions, rs \in SkillOverrides,
             re \in ExperienceOverrides, rd \in DegreeOverrides, x \in BOOLEAN :
               ScoreResume(r, j, rs, re, rd, x)
    \/ /\ pc = "idle"
       /\ \E rs \in SeqsUpTo(BatchResumes, MaxBatch), j \in BatchJobs,
             o \in BatchOverrides :
               \E x \in [DOMAIN rs -> BOOLEAN] : BatchScoreResumes(rs, j, o, x)
    \/ /\ pc = "idle"
       /\ \E s \in ResumeSkillLists, q \in RequiredSkillLists :
               CalculateSkillMatchScore(s, q)
    \/ /\ pc = "idle"
       /\ \E c \in Years, r \in Years : CalculateExperienceScore(c, r)
    \/ /\ pc = "idle"
       /\ \E e \in EducationLists, d \in RequiredDegrees :
               CalculateEducationScore(e, d)
    \/ /\ pc = "idle"
       /\ \E r \in Resumes, j \in JobDescriptions : FallbackTextSimilarity(r, j)
    \/ Return

Spec == Init /\ [][Next]_vars

-----------------------------------------------------------------------------
(* What the specification says of the scorer, claim by claim               *)

\* the call `op` has just ended
Done(op) == pc = "done" /\ call.op = op

Outcome == Val(result)

HasReturned == Outcome.outcome = "returned"

HasRaised == Outcome.outcome = "raised"

ScoringOps ==
    {"score_resume", "batch_score_resumes", "_calculate_skill_match_score",
     "_calculate_experience_score", "_calculate_education_score",
     "_fallback_text_similarity"}

\* the four weights added as real numbers
SumOfWeights(w) == RAdd(RAdd(RAdd(w[1], w[2]), w[3]), w[4])

\* the four weights added as floats, from the left
FloatSum(w) == FAdd(FAdd(FAdd(Float(w[1]), Float(w[2])), Float(w[3])), Float(w[4]))

\* the float sum of the four weights is within the default tolerance of
\* numpy.isclose around 1.0: abs(sum - 1.0) <= 1.001e-05, the float that
\* 1e-8 + 1e-5 * 1.0 is
SumWithinTolerance(w) ==
    FLe(FAbs(FSub(FloatSum(w), FOne)), Float(Rat(1001, 100000000)))

\* C1, as the specification words it: constructing a scorer fails exactly
\* when the four weights do not sum to 1.0.
C1_RaisesUnlessSumIsOne ==
    Done("__init__") =>
        (HasRaised <=> SumOfWeights(call.weights) # ROne)

\* C1, amended: constructing a scorer raises ValueError exactly when the
\* float sum of the four weights, added in the order skill, experience,
\* education, semantic, is farther from 1.0 than the tolerance of
\* numpy.isclose, abs(sum - 1.0) > 1.001e-05 as floats; a sum within the
\* tolerance constructs the scorer, and every scoring call is made on a
\* scorer whose weights passed.
C1_RaisesOutsideTolerance ==
    /\ Done("__init__") =>
          /\ HasRaised <=> ~SumWithinTolerance(call.weights)
          /\ HasRaised => Outcome.exc = "ValueError"
          /\ HasReturned => scorer = Some(Outcome.value)
    /\ ~IsNone(scorer) =>
          SumWithinTolerance(<<Val(scorer).skill_weight, Val(scorer).experience_weight,
                               Val(scorer).education_weight, Val(scorer).semantic_weight>>)
    /\ call.op \in ScoringOps => ~IsNone(scorer)

\* weights whose real sum 1.00001001 is at the tolerance have just been
\* refused, the float sum being outside it
C1_Witness ==
    /\ Done("__init__")
    /\ HasRaised
    /\ call.weights = EdgeWeights
    /\ RLe(RAdd(SumOfWeights(call.weights), <<-1, 1>>), Rat(1001, 100000000))
    /\ ~SumWithinTolerance(call.weights)

Injections(n) == {p \in [1..n -> 1..n] : \A i, j \in 1..n : p[i] = p[j] => i = j}

\* C2: batch_score_resumes returns one (candidate, breakdown) pair for each
\* candidate of the batch, the breakdown being that candidate's own, in
\* descending order of final_score, and candidates whose final scores are
\* equal stand in the order they had in the batch.
C2_BatchSortedStable ==
    Done("batch_score_resumes") =>
        /\ HasReturned
        /\ LET batch == call.resumes
               out == Outcome.value
           IN  /\ Len(out) = Len(batch)
               /\ \A i \in 1..(Len(out) - 1) :
                     FLe(out[i + 1][2].final_score, out[i][2].final_score)
               /\ \E p \in Injections(Len(batch)) :
                     /\ \A i \in 1..Len(out) :
                           /\ out[i][1] = batch[p[i]]
                           /\ Returned(out[i][2]) \in
                                score_resume(Val(scorer), batch[p[i]],
                                    call.job_description, call.required_skills,
                                    call.required_experience, call.required_degree,
                                    call.em_raises[p[i]])
                     /\ \A i, j \in 1..Len(out) :
                           (i < j /\ out[i][2].final_score = out[j][2].final_score)
                               => p[i] < p[j]

\* two different candidates with equal final scores came back in the order
\* they were given
C2_Witness ==
    /\ Done("batch_score_resumes")
    /\ HasReturned
    /\ call.resumes = <<R_Joan, R_John>>
    /\ Outcome.value[1][1] = R_Joan
    /\ Outcome.value[2][1] = R_John
    /\ Outcome.value[1][2].final_score = Outcome.value[2][2].final_score

\* C3: the final score of a scored candidate lies in [0, 1], whether the
\* semantic component came from the embeddings manager or from the fallback.
C3_FinalScoreInUnitInterval ==
    (Done("score_resume") /\ HasReturned) =>
        /\ FLe(FZero, Outcome.value.final_score)
        /\ FLe(Outcome.value.final_score, FOne)

\* the weighted sum of the four component scores of a breakdown, in
\* floats as the specification writes it
WeightedSum(self, b) ==
    FAdd(FAdd(FAdd(FMul(Float(self.skill_weight), Float(b.skill_match_score)),
                   FMul(Float(self.experience_weight), Float(b.experience_score))),
              FMul(Float(self.education_weight), Float(b.education_score))),
         FMul(Float(self.semantic_weight), Float(b.semantic_similarity_score)))

\* C4: the final score of a breakdown is the sum of its four component
\* scores, each multiplied by the scorer's weight for it, and is stored as
\* computed, without clamping, by score_resume and for every candidate of a
\* batch.
C4_FinalScoreIsWeightedSum ==
    /\ (Done("score_resume") /\ HasReturned) =>
          Outcome.value.final_score = WeightedSum(Val(scorer), Outcome.value)
    /\ (Done("batch_score_resumes") /\ HasReturned) =>
          \A i \in DOMAIN Outcome.value :
              Outcome.value[i][2].final_score
                  = WeightedSum(Val(scorer), Outcome.value[i][2])

\* a weighted sum outside [0, 1] was stored as it is
C4_Witness ==
    /\ Done("score_resume")
    /\ HasReturned
    /\ Outcome.value.final_score = WeightedSum(Val(scorer), Outcome.value)
    /\ ~(/\ FLe(FZero, Outcome.value.final_score)
         /\ FLe(Outcome.value.final_score, FOne))

\* C5: with a positive requirement r and known experience c the experience
\* score is c / r when c < r, and 1 + min((c - r) / r, 0.2) otherwise: above
\* 1.0 when c exceeds r, and never above 1.2.
C5_ExperienceBonus ==
    (/\ Done("_calculate_experience_score")
     /\ ~IsNone(call.resume_experience)
     /\ ~IsNone(call.required_experience)
     /\ Val(call.required_experience).value > 0) =>
        LET c == Val(call.resume_experience).value
            r == Val(call.required_experience).value
        IN  /\ HasReturned
            /\ Outcome.value = IF c < r THEN Rat(c, r)
                               ELSE RAdd(ROne, RMin(Rat(c - r, r), Rat(1, 5)))
            /\ c > r => RLt(ROne, Outcome.value)
            /\ RLe(Outcome.value, Rat(6, 5))

\* a skill as the comparison sees it: trimmed and lower-cased
Canonical(skill) == Lower(Strip(skill))

CanonicalSet(skills) == {Canonical(skills[i]) : i \in DOMAIN skills}

\* C6: the skill score is |matched| / |required|, both lists taken as sets
\* of lower-cased, trimmed skills; it is 1.0 when the list of required
\* skills is empty, and 0.0 for a candidate without skills against a
\* requirement that is not empty.
C6_SkillScoreIsMatchedFraction ==
    Done("_calculate_skill_match_score") =>
        LET candidate == CanonicalSet(call.resume_skills)
            required == CanonicalSet(call.required_skills)
            score == Outcome.value[1]
        IN  /\ HasReturned
            /\ call.required_skills = <<>> => score = ROne
            /\ call.required_skills # <<>> =>
                  score = Rat(Cardinality(candidate \cap required),
                              Cardinality(required))
            /\ (call.resume_skills = <<>> /\ call.required_skills # <<>>) =>
                  score = RZero

\* " aws " of the candidate met the required "AWS", and "python" the
\* required "Python": two of three
C6_Witness ==
    /\ Done("_calculate_skill_match_score")
    /\ call.resume_skills = <<Sk_python, Sk_aws_padded>>
    /\ call.required_skills = <<Sk_Python, Sk_AWS, Sk_Docker>>
    /\ Outcome.value[1] = Rat(2, 3)

\* C7: matched_skills holds the candidate's own tokens unchanged,
\* missing_skills holds the unmet required skills as they were given, not
\* normalized, and every required skill is, after normalization, in exactly
\* one of the two lists.
C7_ListsKeepOriginalTokens ==
    (Done("_calculate_skill_match_score") /\ call.required_skills # <<>>) =>
        LET matched == Outcome.value[2]
            missing == Outcome.value[3]
            required == CanonicalSet(call.required_skills)
        IN  /\ matched = SelectSeq(call.resume_skills,
                                   LAMBDA s : Canonical(s) \in required)
            /\ \A i \in DOMAIN missing :
                  /\ missing[i] \in Range(call.required_skills)
                  /\ Canonical(missing[i]) \notin CanonicalSet(call.resume_skills)
            /\ \A q \in required :
                  (q \in CanonicalSet(matched)) # (q \in CanonicalSet(missing))

\* the level, on the scale of degree_hierarchy, of the degree a text names:
\* the highest level of the degree names among its words, 0 without one
NamedLevel(text) ==
    LET words == WordSet(Lower(text))
        named == {i \in DOMAIN degree_hierarchy : degree_hierarchy[i][1] \in words}
    IN  IF named = {} THEN RZero
        ELSE degree_hierarchy[CHOOSE i \in named : \A j \in named :
                 RLe(degree_hierarchy[j][2], degree_hierarchy[i][2])][2]

\* C8: the education score is 1.0 or 0.0. Without a required degree it is
\* 1.0; with one it is 1.0 exactly when a degree the candidate lists
\* resolves, on the scale certificate < diploma < associate < bachelor <
\* master <= MBA < doctorate, to a level at or above the level of the
\* required degree, and 0.0 otherwise, also when no education is listed.
C8_EducationOrdinalScale ==
    Done("_calculate_education_score") =>
        /\ HasReturned
        /\ Outcome.value \in {RZero, ROne}
        /\ ~Truthy(call.required_degree) => Outcome.value = ROne
        /\ Truthy(call.required_degree) =>
              (Outcome.value = ROne <=>
                  \E e \in DOMAIN call.resume_education :
                      LET level == NamedLevel(
                                       Get(call.resume_education[e], "degree", <<>>))
                      IN  /\ RLt(RZero, level)
                          /\ RLe(NamedLevel(Val(call.required_degree)), level))

\* the words of a text that are not stop words
Tokens(text) == WordSet(Lower(text)) \ stop_words

\* the text of a candidate the fallback reads: the summary and the skills
CandidateText(resume_data) ==
    LET summary == Get(resume_data, "summary", None)
        skills == Get(resume_data, "skills", <<>>)
    IN  Join((IF Truthy(summary) THEN <<Val(summary)>> ELSE <<>>)
             \o (IF skills # <<>> THEN <<Join(skills, <<" ">>)>> ELSE <<>>),
             <<" ">>)

Jaccard(A, B) ==
    IF A \cup B = {} THEN RZero
    ELSE Rat(Cardinality(A \cap B), Cardinality(A \cup B))

\* score_resume ran without a working comparison: the scorer has no
\* embeddings manager, or the manager's comparison raised
FellBack ==
    /\ Done("score_resume")
    /\ (IsNone(Val(scorer).embeddings_manager) \/ call.em_raises)

\* the skill, experience and education scores of the call in `call` are
\* those the same call gets when the comparison works
OtherComponentsUnaffected ==
    \E o \in score_resume(NewScorer(<<Val(scorer).skill_weight,
                                      Val(scorer).experience_weight,
                                      Val(scorer).education_weight,
                                      Val(scorer).semantic_weight>>,
                                    Some([model |-> 1])),
                          call.resume_data, call.job_description,
                          call.required_skills, call.required_experience,
                          call.required_degree, FALSE) :
        /\ o.outcome = "returned"
        /\ o.value.skill_match_score = Outcome.value.skill_match_score
        /\ o.value.experience_score = Outcome.value.experience_score
        /\ o.value.education_score = Outcome.value.education_score
        /\ o.value.matched_skills = Outcome.value.matched_skills

\* C9, as the specification words it: without a working comparison
\* score_resume returns a breakdown whose semantic score is the Jaccard
\* similarity of the stop-word-filtered token sets of the candidate text and
\* the job text (where one of the two sets has a token, so that the
\* similarity is defined), and whose other component scores are unaffected.
C9_FallbackIsJaccard ==
    FellBack =>
        /\ HasReturned
        /\ (Tokens(CandidateText(call.resume_data))
                \cup Tokens(call.job_description) # {}) =>
              Outcome.value.semantic_similarity_score
                  = Jaccard(Tokens(CandidateText(call.resume_data)),
                            Tokens(call.job_description))
        /\ OtherComponentsUnaffected

\* C9, amended: without a working comparison score_resume returns a
\* breakdown whose semantic score is the Jaccard similarity of the
\* stop-word-filtered token sets of the candidate's summary and skills and of
\* the job text when the job text has a token that is not a stop word, and
\* 0.5 when it has none; the exception does not reach the caller and the
\* other component scores are unaffected. The fallback called on its own
\* gives the same value.
C9_FallbackIsJaccardOrHalf ==
    /\ FellBack =>
          /\ HasReturned
          /\ Outcome.value.semantic_similarity_score
                = IF Tokens(call.job_description) = {} THEN Rat(1, 2)
                  ELSE Jaccard(Tokens(CandidateText(call.resume_data)),
                               Tokens(call.job_description))
          /\ OtherComponentsUnaffected
    /\ Done("_fallback_text_similarity") =>
          Outcome.value
                = IF Tokens(call.job_description) = {} THEN Rat(1, 2)
                  ELSE Jaccard(Tokens(CandidateText(call.resume_data)),
                               Tokens(call.job_description))

\* the comparison raised, and the breakdown carries the Jaccard similarity
\* of a candidate and a job that share a word
C9_Witness ==
    /\ FellBack
    /\ call.em_raises
    /\ HasReturned
    /\ Tokens(call.job_description) # {}
    /\ RLt(RZero, Outcome.value.semantic_similarity_score)
    /\ Outcome.value.semantic_similarity_score
          = Jaccard(Tokens(CandidateText(call.resume_data)),
                    Tokens(call.job_description))

\* the requirements score_resume works with: the caller's, or those it
\* extracts from the job description
EffectiveSkills ==
    IF IsNone(call.required_skills)
    THEN JobRequirement[call.job_description].required_skills
    ELSE Val(call.required_skills)

EffectiveExperience ==
    IF IsNone(call.required_experience)
    THEN JobRequirement[call.job_description].required_experience
    ELSE call.required_experience

EffectiveDegree ==
    IF IsNone(call.required_degree)
    THEN JobRequirement[call.job_description].required_degree
    ELSE call.required_degree

\* C10: score_resume returns whatever fields of the candidate record are
\* missing or empty. Without skills the skill score is 0.0 against a
\* requirement that is not empty, without experience the experience score is
\* 0.0 against a positive requirement, without education the education score
\* is 0.0 against a required degree, and each is 1.0 where nothing is
\* required. Only the construction of a scorer raises.
C10_MissingFieldsTakeNoDataValues ==
    /\ (pc = "done" /\ HasRaised) => call.op = "__init__"
    /\ Done("score_resume") =>
          /\ HasReturned
          /\ Get(call.resume_data, "skills", <<>>) = <<>> =>
                Outcome.value.skill_match_score
                    = IF EffectiveSkills = <<>> THEN ROne ELSE RZero
          /\ IsNone(Get(call.resume_data, "experience_years", None)) =>
                Outcome.value.experience_score
                    = IF IsNone(EffectiveExperience) \/ Val(EffectiveExperience).value = 0
                      THEN ROne ELSE RZero
          /\ Get(call.resume_data, "education", <<>>) = <<>> =>
                Outcome.value.education_score
                    = IF Truthy(EffectiveDegree) THEN RZero ELSE ROne

\* the empty record was scored against requirements of all three kinds
C10_Witness ==
    /\ Done("score_resume")
    /\ HasReturned
    /\ call.resume_data = R_Empty
    /\ EffectiveSkills # <<>>
    /\ ~IsNone(EffectiveExperience) /\ Val(EffectiveExperience).value > 0
    /\ Truthy(EffectiveDegree)
    /\ Outcome.value.skill_match_score = RZero
    /\ Outcome.value.experience_score = RZero
    /\ Outcome.value.education_score = RZero


\* every pair of a returned batch holds a candidate of the batch and a
\* breakdown that score_resume returns for that candidate alone, with the
\* job text and overrides of the batch
BatchPairsAreOwn ==
    \A i \in DOMAIN Outcome.value :
        \E j \in DOMAIN call.resumes :
            /\ Outcome.value[i][1] = call.resumes[j]
            /\ Returned(Outcome.value[i][2]) \in
                    score_resume(Val(scorer), call.resumes[j], call.job_description,
                        call.required_skills, call.required_experience,
                        call.required_degree, call.em_raises[j])

\* C25: scoring carries no hidden state: no scoring call changes the
\* scorer, and whatever was scored before, the breakdown paired with a
\* candidate in the output of batch_score_resumes is the breakdown that
\* score_resume returns for that candidate alone with the same job text
\* and overrides, whatever the other candidates of the batch and their
\* order.
C25_NoHiddenState ==
    /\ [](Done("batch_score_resumes") /\ HasReturned => BatchPairsAreOwn)
    /\ [][(pc' = "done" /\ call'.op \in ScoringOps) => scorer' = scorer]_vars

\* a batch of two different candidates that came back in the other order,
\* each with its own breakdown
C25_Witness ==
    /\ Done("batch_score_resumes")
    /\ HasReturned
    /\ call.resumes = <<R_Empty, R_Jane>>
    /\ Outcome.value[1][1] = R_Jane
    /\ Outcome.value[2][1] = R_Empty
    /\ Outcome.value[1][2] # Outcome.value[2][2]
    /\ BatchPairsAreOwn

\* C30: in every breakdown of score_resume has_required_degree is true if
\* and only if education_score is 1.0; it is true whenever no degree is
\* required, even for a candidate who lists no education.
C30_DegreeFlagIffFullEducationScore ==
    Done("score_resume") /\ HasReturned =>
        /\ Outcome.value.has_required_degree <=> (Outcome.value.education_score = ROne)
        /\ ~Truthy(EffectiveDegree) => Outcome.value.has_required_degree

\* a candidate without education scored against a job that requires no
\* degree has the degree flag; one scored against a required degree has not
C30_Witness ==
    /\ Done("score_resume")
    /\ HasReturned
    /\ Get(call.resume_data, "education", <<>>) = <<>>
    /\ \/ ~Truthy(EffectiveDegree) /\ Outcome.value.has_required_degree
       \/ Truthy(EffectiveDegree) /\ ~Outcome.value.has_required_degree

-----------------------------------------------------------------------------
(* EmbeddingsManager as a vector index (embeddings.py)                     *)
(*                                                                         *)
(* The instance is a record of the fields its methods read after           *)
(* __init__: model, vector_db_type, index, faiss_metadata, memory_vectors. *)
(* pinecone_api_key, pinecone_environment and use_faiss_fallback are read  *)
(* by _initialize_vector_db only and are kept in the call.                 *)
(* index is the content of the Pinecone index or of the FAISS index, a     *)
(* sequence of entries; it stays None (<<>>) on the memory backend.        *)

\* the pinecone_api_key arguments: None, '' and a key
ApiKeys == {None, Some(<<>>), Some(<<"k","e","y">>)}

\* the pinecone_environment arguments
PineconeEnvironments == {None, Some(<<"e","n","v">>)}

\* os.environ, as far as __init__ reads it
Environs == {EmptyDict, [PINECONE_API_KEY |-> <<"k","e","y">>, PINECONE_ENVIRONMENT |-> <<"e","n","v">>]}

\* os.getenv(key)
Getenv(environ, key) == IF key \in DOMAIN environ THEN Some(environ[key]) ELSE None

\* a or b, of Optional strs
Or(a, b) == IF Truthy(a) THEN a ELSE b

\* a selection that gives up the local index when the remote service was
\* tried and failed
_initialize_vector_db_skipping(pinecone_api_key, pinecone_environment, use_faiss_fallback, pinecone_fails, faiss_fails) ==
    IF Truthy(pinecone_api_key) /\ Truthy(pinecone_environment)
    THEN IF ~pinecone_fails THEN "pinecone" ELSE "memory"
    ELSE IF use_faiss_fallback /\ ~faiss_fails THEN "faiss" ELSE "memory"

\* _initialize_vector_db (embeddings.py 61-90): the vector_db_type it
\* selects.  pinecone_fails, faiss_fails: whether _initialize_pinecone
\* (92-125) and _initialize_faiss (127-143) raise, which is up to the
\* environment (a library not installed, the service unreachable); both
\* raise Exception or ImportError only, which the except clauses catch
_initialize_vector_db(pinecone_api_key, pinecone_environment, use_faiss_fallback, pinecone_fails, faiss_fails) ==
    IF Truthy(pinecone_api_key) /\ Truthy(pinecone_environment) /\ ~pinecone_fails
    THEN "pinecone"
    ELSE IF use_faiss_fallback /\ ~faiss_fails THEN "faiss"
    ELSE "memory"

\* EmbeddingsManager.__init__ (embeddings.py 23-59): SentenceTransformer(
\* model_name) raises when the model cannot be loaded (model_fails), before
\* any backend is tried
NewManager(model, pinecone_api_key, pinecone_environment, use_faiss_fallback, environ, model_fails, pinecone_fails, faiss_fails) ==
    IF model_fails THEN Raise("Exception")
    ELSE Returned(
        [model |-> model,
         vector_db_type |->
            _initialize_vector_db(
                Or(pinecone_api_key, Getenv(environ, "PINECONE_API_KEY")),
                Or(pinecone_environment, Getenv(environ, "PINECONE_ENVIRONMENT")),
                use_faiss_fallback, pinecone_fails, faiss_fails),
         index |-> <<>>,
         faiss_metadata |-> EmptyDict,
         memory_vectors |-> <<>>])


\* the ids resumes are stored under ('r1', 'r821')
ResumeIds == {<<"r","1">>, <<"r","8","2","1">>}

Unknown == <<"U","n","k","n","o","w","n">>

\* json.dumps of a list of strs that need no escaping
JsonDumps(skills) ==
    <<"[">> \o Join([i \in 1..Len(skills) |-> <<"\"">> \o skills[i] \o <<"\"">>], <<",", " ">>) \o <<"]">>

\* text[:n]
Prefix(text, n) == SubSeq(text, 1, IF Len(text) < n THEN Len(text) ELSE n)

\* the metadata dict of upsert_resume (embeddings.py 231-241)
Metadata(resume_id, resume_data, text) ==
    [id |-> resume_id,
     name |-> Get(resume_data, "name", Some(Unknown)),
     email |-> Get(resume_data, "email", Some(<<>>)),
     phone |-> Get(resume_data, "phone", Some(<<>>)),
     skills |-> JsonDumps(Get(resume_data, "skills", <<>>)),
     experience_years |->
        (LET years == Get(resume_data, "experience_years", Some(PyInt(0)))
         IN  IF IsNone(years) \/ Val(years).value = 0 THEN PyInt(0) ELSE Val(years)),
     education_count |-> Len(Get(resume_data, "education", <<>>)),
     text |-> Prefix(text, 500)]

\* An int beyond the integers of TLC is held by its sign and its decimal
\* limbs of five digits, the most significant first
Big(negative, limbs) == [negative |-> negative, limbs |-> limbs]

\* PYTHONHASHSEED of the processes explored: under the last of them
\* hash('r1') and hash('r821') end in the same ten digits
HashSecrets == {"0", "1", "1192579"}

\* hash(s) of the ids under each secret, as CPython 3.11 computes it
\* (siphash13 of the characters, keyed by the secret)
StrHashes ==
    [secret \in HashSecrets |->
        IF secret = "0"
        THEN (<<"r","1">> :> Big(TRUE, <<1540, 96592, 52455, 59410>>)) @@ (<<"r","2">> :> Big(TRUE, <<8186, 97806, 51484, 16544>>)) @@ (<<"r","8","2","1">> :> Big(FALSE, <<7991, 83741, 82159, 50667>>))
        ELSE IF secret = "1"
        THEN (<<"r","1">> :> Big(TRUE, <<8114, 38717, 79373, 20236>>)) @@ (<<"r","2">> :> Big(TRUE, <<8013, 83715, 94461, 72694>>)) @@ (<<"r","8","2","1">> :> Big(FALSE, <<6426, 22019, 33898, 45054>>))
        ELSE (<<"r","1">> :> Big(TRUE, <<1130, 92995, 25741, 34920>>)) @@ (<<"r","2">> :> Big(TRUE, <<4505, 91149, 40278, 25927>>)) @@ (<<"r","8","2","1">> :> Big(FALSE, <<230, 95638, 74258, 65080>>))]

\* hash(s) of a str in the process of the session: 0 of '', and salted
\* with the secret of the process otherwise
StrHash(s) == IF s = <<>> THEN Big(FALSE, <<0>>) ELSE StrHashes[hash_secret][s]

\* x % (10 ** 10) of an int, as its two low limbs: the remainder has the
\* sign of the modulus, so that a negative x counts down from 10 ** 10
Mod10Digits(x) ==
    LET n == Len(x.limbs)
        hi == IF n >= 2 THEN x.limbs[n - 1] ELSE 0
        lo == x.limbs[n]
    IN  IF ~x.negative \/ (hi = 0 /\ lo = 0) THEN <<hi, lo>>
        ELSE IF lo = 0 THEN <<100000 - hi, 0>>
        ELSE <<100000 - 1 - hi, 100000 - lo>>

\* numeric_id of _upsert_faiss (embeddings.py 275), hash(resume_id) %
\* (10 ** 10)
NumericId(resume_id) == Mod10Digits(StrHash(resume_id))

\* str(idx) of a numeric id (embeddings.py 395)
IdText(idx) ==
    IF idx[1] = 0 THEN IntToText(idx[2])
    ELSE
        LET low == IntToText(idx[2])
        IN  IntToText(idx[1]) \o [i \in 1..(5 - Len(low)) |-> "0"] \o low

\* d[key] = value of a dict kept as the sequence of its items, in insertion
\* order: an item whose key is present is replaced where it stands
Put(items, item) ==
    IF \E i \in DOMAIN items : items[i].id = item.id
    THEN [i \in DOMAIN items |-> IF items[i].id = item.id THEN item ELSE items[i]]
    ELSE Append(items, item)

\* the items that are not stored under id, in order
RECURSIVE Without(_, _)
Without(items, id) ==
    IF items = <<>> THEN <<>>
    ELSE IF items[1].id = id THEN Without(Tail(items), id)
    ELSE <<items[1]>> \o Without(Tail(items), id)

\* index.upsert of the Pinecone client (embeddings.py 260-270): the service
\* keeps one vector per id
_upsert_pinecone(self, resume_id, embedding, metadata) ==
    [self EXCEPT !.index = Put(@, [id |-> resume_id, values |-> embedding, metadata |-> metadata])]

\* _upsert_faiss (embeddings.py 272-284): IndexIDMap.add_with_ids appends
\* the vector, whether or not the id is already in the index
_upsert_faiss(self, resume_id, embedding, metadata) ==
    [self EXCEPT
        !.index = Append(@, [id |-> NumericId(resume_id), vector |-> embedding]),
        !.faiss_metadata = (NumericId(resume_id) :> metadata) @@ @]

\* _upsert_memory (embeddings.py 286-291)
_upsert_memory(self, resume_id, embedding, metadata) ==
    [self EXCEPT !.memory_vectors = Put(@, [id |-> resume_id, embedding |-> embedding, metadata |-> metadata])]

\* the dispatch of upsert_resume (embeddings.py 243-251)
Upserted(self, resume_id, embedding, metadata) ==
    IF self.vector_db_type = "pinecone" THEN _upsert_pinecone(self, resume_id, embedding, metadata)
    ELSE IF self.vector_db_type = "faiss" THEN _upsert_faiss(self, resume_id, embedding, metadata)
    ELSE _upsert_memory(self, resume_id, embedding, metadata)

\* the text upsert_resume embeds (embeddings.py 226)
UpsertText(resume_data, custom_text) ==
    IF Truthy(custom_text) THEN Val(custom_text) ELSE create_resume_text(resume_data)

\* an upsert that lets the failure of the model or of the backend through
upsert_resume_raising(self, resume_id, resume_data, custom_text, embed_raises, backend_raises) ==
    IF embed_raises \/ backend_raises
    THEN [self |-> self, outcome |-> Raise("Exception")]
    ELSE [self |-> Upserted(self, resume_id, encode(self.model, UpsertText(resume_data, custom_text)),
                            Metadata(resume_id, resume_data, UpsertText(resume_data, custom_text))),
          outcome |-> Returned(TRUE)]

\* upsert_resume (embeddings.py 207-258): the instance after the call and
\* what the call returns.  embed_raises: generate_embedding raises;
\* backend_raises: the call to the Pinecone or FAISS index raises
upsert_resume(self, resume_id, resume_data, custom_text, embed_raises, backend_raises) ==
    IF embed_raises \/ backend_raises
    THEN [self |-> self, outcome |-> Returned(FALSE)]
    ELSE [self |-> Upserted(self, resume_id, encode(self.model, UpsertText(resume_data, custom_text)),
                            Metadata(resume_id, resume_data, UpsertText(resume_data, custom_text))),
          outcome |-> Returned(TRUE)]


\* the orders in which an index may report results of equal score: every
\* arrangement of the results by descending score
Rankings(results) ==
    LET n == Len(results)
        orders == {q \in [1..n -> 1..n] :
                     /\ \A i, j \in 1..n : q[i] = q[j] => i = j
                     /\ \A i \in 1..(n - 1) : RLe(results[q[i + 1]].score, results[q[i]].score)}
    IN  {[i \in 1..n |-> results[q[i]]] : q \in orders}

\* list.sort(key=lambda x: x['score'], reverse=True): descending and stable
RECURSIVE SortByScoreDesc(_)
SortByScoreDesc(items) ==
    IF items = <<>> THEN <<>>
    ELSE
        LET init == SortByScoreDesc(SubSeq(items, 1, Len(items) - 1))
            x == items[Len(items)]
            ahead == {i \in 1..Len(init) : RLe(x.score, init[i].score)}
            n == Cardinality(ahead)
        IN  SubSeq(init, 1, n) \o <<x>> \o SubSeq(init, n + 1, Len(init))

\* _search_pinecone (embeddings.py 349-372): index.query of an index
\* created with metric="cosine" gives the top_k matches by cosine score
_search_pinecone(self, query_embedding, top_k) ==
    {Prefix(r, top_k) :
        r \in Rankings([i \in DOMAIN self.index |->
                [id |-> self.index[i].id,
                 score |-> _cosine_similarity(query_embedding, self.index[i].values),
                 metadata |-> self.index[i].metadata]])}

\* the squared Euclidean distance IndexFlatL2 reports
L2(a, b) == Dot(<<a[1] - b[1], a[2] - b[2]>>, <<a[1] - b[1], a[2] - b[2]>>)

\* _search_faiss (embeddings.py 374-401): index.search gives the top_k
\* nearest vectors, nearest first, and -1 where there are fewer; the id of a
\* result is the text of the numeric id
_search_faiss(self, query_embedding, top_k) ==
    {Prefix(r, top_k) :
        r \in Rankings([i \in DOMAIN self.index |->
                [id |-> IdText(self.index[i].id),
                 score |-> Rat(1, 1 + L2(query_embedding, self.index[i].vector)),
                 metadata |-> Get(self.faiss_metadata, self.index[i].id, EmptyDict)]])}

\* _search_memory (embeddings.py 403-424)
_search_memory(self, query_embedding, top_k) ==
    LET similarities == [i \in DOMAIN self.memory_vectors |->
            [id |-> self.memory_vectors[i].id,
             score |-> _cosine_similarity(query_embedding, self.memory_vectors[i].embedding),
             metadata |-> self.memory_vectors[i].metadata]]
    IN  {Prefix(SortByScoreDesc(similarities), top_k)}

\* the dispatch of search (embeddings.py 335-342)
Found(self, query_embedding, top_k) ==
    IF self.vector_db_type = "pinecone" THEN _search_pinecone(self, query_embedding, top_k)
    ELSE IF self.vector_db_type = "faiss" THEN _search_faiss(self, query_embedding, top_k)
    ELSE _search_memory(self, query_embedding, top_k)

\* search (embeddings.py 314-347): every list the call may return
search(self, query_text, top_k, embed_raises, backend_raises) ==
    IF embed_raises \/ backend_raises THEN {Returned(<<>>)}
    ELSE {Returned(r) : r \in Found(self, encode(self.model, query_text), top_k)}

\* get_stats (embeddings.py 485-501), without the figures of the model;
\* describe_index_stats of the Pinecone client may raise, and nothing
\* catches it
get_stats(self, backend_raises) ==
    IF self.vector_db_type = "pinecone" /\ backend_raises THEN Raise("Exception")
    ELSE Returned(
        [vector_db_type |-> self.vector_db_type,
         total_vectors |->
            IF self.vector_db_type = "memory" THEN Len(self.memory_vectors)
            ELSE Len(self.index)])

\* delete_resume (embeddings.py 503-527): there is no branch for the
\* memory backend, which falls through to `return True`
delete_resume(self, resume_id, backend_raises) ==
    IF self.vector_db_type = "pinecone"
    THEN IF backend_raises THEN [self |-> self, outcome |-> Returned(FALSE)]
         ELSE [self |-> [self EXCEPT !.index = Without(@, resume_id)], outcome |-> Returned(TRUE)]
    ELSE IF self.vector_db_type = "faiss"
    THEN [self |-> self, outcome |-> Returned(FALSE)]
    ELSE [self |-> self, outcome |-> Returned(TRUE)]

\* a clear that falls back to the in-memory store when the backend fails
clear_falling_back(self, backend_raises, index_replaced) ==
    IF backend_raises
    THEN [self |-> [self EXCEPT !.vector_db_type = "memory", !.memory_vectors = <<>>],
          outcome |-> Returned(FALSE)]
    ELSE [self |-> [self EXCEPT !.index = <<>>, !.faiss_metadata = EmptyDict, !.memory_vectors = <<>>],
          outcome |-> Returned(TRUE)]

\* clear (embeddings.py 618-642): index.delete(delete_all=True) on Pinecone,
\* a new index from _initialize_faiss and no metadata on FAISS, an empty
\* dict on the memory backend.  backend_raises: the call to the backend
\* raises and clear returns False.  _initialize_faiss (127-143) assigns
\* self.index twice, the IndexFlatL2 at line 133 and the IndexIDMap around
\* it at line 136: index_replaced says that the failure comes after the
\* first assignment, which leaves an empty index without an id map in place
\* of the vectors, under the metadata that line 634 has not reached
clear(self, backend_raises, index_replaced) ==
    IF backend_raises
    THEN IF self.vector_db_type = "faiss" /\ index_replaced
         THEN [self |-> [self EXCEPT !.index = <<>>], outcome |-> Returned(FALSE)]
         ELSE [self |-> self, outcome |-> Returned(FALSE)]
    ELSE IF self.vector_db_type = "pinecone"
    THEN [self |-> [self EXCEPT !.index = <<>>], outcome |-> Returned(TRUE)]
    ELSE IF self.vector_db_type = "faiss"
    THEN [self |-> [self EXCEPT !.index = <<>>, !.faiss_metadata = EmptyDict], outcome |-> Returned(TRUE)]
    ELSE [self |-> [self EXCEPT !.memory_vectors = <<>>], outcome |-> Returned(TRUE)]

\* save_faiss_index (embeddings.py 529-551): writes two files, or logs the
\* failure; the instance is as it was and the call returns None
save_faiss_index(self) == [self |-> self, outcome |-> Returned(None)]

\* load_faiss_index (embeddings.py 553-575).  file: what is on disk under
\* filepath, None when faiss.read_index cannot read it, else the index it
\* reads and the metadata of the file beside it, None when that file is
\* missing or is not JSON.  Line 563 assigns the index before line 567 opens
\* the metadata: when the metadata cannot be read the index is the new one
\* and the metadata are the old ones.  The failure is logged
load_faiss_index(self, file) ==
    IF self.vector_db_type # "faiss" \/ IsNone(file)
    THEN [self |-> self, outcome |-> Returned(None)]
    ELSE IF IsNone(Val(file).faiss_metadata)
    THEN [self |-> [self EXCEPT !.index = Val(file).index], outcome |-> Returned(None)]
    ELSE [self |-> [self EXCEPT !.index = Val(file).index,
                                !.faiss_metadata = Val(Val(file).faiss_metadata)],
          outcome |-> Returned(None)]


-----------------------------------------------------------------------------
(* The session of an index: one manager, called by a single-threaded       *)
(* caller                                                                  *)

\* The code puts no limit on the vectors of an index.  The sessions
\* explored here stop adding to a FAISS index, which keeps every vector it
\* is given, at MaxEntries vectors
MaxEntries == 3

\* the session may give the FAISS index n more vectors
WithinBound(n) ==
    ~IsNone(manager) /\ Val(manager).vector_db_type = "faiss" =>
        Len(Val(manager).index) + n <= MaxEntries

\* (resume_data, custom_text) of an upsert
UpsertInputs ==
    {<<R_John, None>>, <<R_Jane, None>>, <<R_Jane, Some(JD_Python)>>, <<R_NameOnly, Some(<<>>)>>}

\* the (resume_id, resume_data) lists of upsert_resumes_batch: none, one,
\* two ids, one id twice
UpsertBatches ==
    {<<>>,
     << <<<<"r","1">>, R_John>> >>,
     << <<<<"r","1">>, R_John>>, <<<<"r","8","2","1">>, R_Jane>> >>,
     << <<<<"r","8","2","1">>, R_Jane>>, <<<<"r","8","2","1">>, R_John>> >>}

\* the queries of a search: texts that were upserted, and one that was not
Queries == {create_resume_text(R_John), create_resume_text(R_Jane), JD_Python, JD_FiveYears}

\* top_k: one result, or the default
TopKs == {1, 10}

\* what load_faiss_index may find under filepath: nothing it can read, an
\* empty index, an index of one vector, and that index without metadata
\* it can read
SavedFiles ==
    {None,
     Some([index |-> <<>>, faiss_metadata |-> Some(EmptyDict)]),
     Some([index |-> <<[id |-> NumericId(<<"r","1">>), vector |-> encode(1, JD_Python)]>>,
           faiss_metadata |-> Some(NumericId(<<"r","1">>) :> Metadata(<<"r","1">>, R_Jane, JD_Python))]),
     Some([index |-> <<[id |-> NumericId(<<"r","1">>), vector |-> encode(1, JD_Python)]>>,
           faiss_metadata |-> None])}

\* EmbeddingsManager(...): the session keeps the instance unless __init__ raises
ConstructManager(model, pinecone_api_key, pinecone_environment, use_faiss_fallback, environ, model_fails, pinecone_fails, faiss_fails) ==
    /\ pc = "idle"
    /\ IsNone(manager)
    /\ call' = [op |-> "EmbeddingsManager", model |-> model,
                pinecone_api_key |-> pinecone_api_key,
                pinecone_environment |-> pinecone_environment,
                use_faiss_fallback |-> use_faiss_fallback, environ |-> environ,
                model_fails |-> model_fails, pinecone_fails |-> pinecone_fails,
                faiss_fails |-> faiss_fails]
    /\ result' = Some(NewManager(model, pinecone_api_key, pinecone_environment,
                        use_faiss_fallback, environ, model_fails, pinecone_fails, faiss_fails))
    /\ manager' = IF model_fails THEN NoManager ELSE Some(Val(result').value)
    /\ pc' = "done"
    /\ UNCHANGED <<supabase, hash_secret, session>>
    /\ UNCHANGED scorer

\* the backend whose calls can fail is a library or a service
BackendCanFail == Val(manager).vector_db_type # "memory"

UpsertResume(resume_id, resume_data, custom_text, embed_raises, backend_raises) ==
    /\ pc = "idle"
    /\ ~IsNone(manager)
    /\ backend_raises => BackendCanFail
    /\ call' = [op |-> "upsert_resume", resume_id |-> resume_id, resume_data |-> resume_data,
                custom_text |-> custom_text, embed_raises |-> embed_raises,
                backend_raises |-> backend_raises, before |-> Val(manager)]
    /\ result' = Some(upsert_resume(Val(manager), resume_id, resume_data, custom_text,
                        embed_raises, backend_raises).outcome)
    /\ manager' = Some(upsert_resume(Val(manager), resume_id, resume_data, custom_text,
                        embed_raises, backend_raises).self)
    /\ pc' = "done"
    /\ UNCHANGED <<supabase, hash_secret, session>>
    /\ UNCHANGED scorer

\* upsert_resumes_batch (embeddings.py 293-312) is called: line 305.  Each
\* turn of its loop upserts one resume and waits for the backend; line 312
\* returns the results when the last turn is over.
UpsertResumesBatch(resumes) ==
    /\ pc = "idle"
    /\ ~IsNone(manager)
    /\ call' = [op |-> "upsert_resumes_batch", resumes |-> resumes,
                embed_raises |-> <<>>, backend_raises |-> <<>>,
                results |-> EmptyDict, before |-> Val(manager)]
    /\ IF resumes = <<>>
       THEN /\ pc' = "done"
            /\ result' = Some(Returned(EmptyDict))
       ELSE /\ pc' = "upserting"
            /\ result' = None
    /\ UNCHANGED <<supabase, hash_secret, session>>
    /\ UNCHANGED <<scorer, manager>>

\* the state after the upsert of a turn: results[resume_id] = success (line
\* 310), the last one when an id comes twice
BatchTurned(resume_id, one, embed_raises, backend_raises) ==
    /\ manager' = Some(one.self)
    /\ call' = [call EXCEPT !.embed_raises = Append(@, embed_raises),
                            !.backend_raises = Append(@, backend_raises),
                            !.results = (resume_id :> one.outcome.value) @@ @]
    /\ IF Len(call.embed_raises) + 1 = Len(call.resumes)
       THEN /\ pc' = "done"
            /\ result' = Some(Returned((resume_id :> one.outcome.value) @@ call.results))
       ELSE /\ pc' = "upserting"
            /\ UNCHANGED result
    /\ UNCHANGED <<supabase, hash_secret, session>>
    /\ UNCHANGED scorer

\* one turn of the loop of lines 308-310.  embed_raises, backend_raises:
\* what fails in the upsert of the turn
UpsertBatchTurn(embed_raises, backend_raises) ==
    /\ pc = "upserting"
    /\ backend_raises => BackendCanFail
    /\ BatchTurned(call.resumes[Len(call.embed_raises) + 1][1],
            upsert_resume(Val(manager), call.resumes[Len(call.embed_raises) + 1][1],
                call.resumes[Len(call.embed_raises) + 1][2], None,
                embed_raises, backend_raises),
            embed_raises, backend_raises)

\* the index of the Pinecone service is shared: another client upserts a
\* vector, between two calls of the session or between two turns of a batch
OtherClientUpsertsVector(resume_id, resume_data) ==
    /\ pc \in {"idle", "upserting"}
    /\ ~IsNone(manager)
    /\ Val(manager).vector_db_type = "pinecone"
    /\ manager' = Some(_upsert_pinecone(Val(manager), resume_id,
                        encode(Val(manager).model, create_resume_text(resume_data)),
                        Metadata(resume_id, resume_data, create_resume_text(resume_data))))
    /\ UNCHANGED <<scorer, supabase, hash_secret, session, pc, call, result>>

\* another client deletes a vector of the index of the service
OtherClientDeletesVector(resume_id) ==
    /\ pc \in {"idle", "upserting"}
    /\ ~IsNone(manager)
    /\ Val(manager).vector_db_type = "pinecone"
    /\ manager' = Some([Val(manager) EXCEPT !.index = Without(@, resume_id)])
    /\ UNCHANGED <<scorer, supabase, hash_secret, session, pc, call, result>>

Search(query_text, top_k, embed_raises, backend_raises) ==
    /\ pc = "idle"
    /\ ~IsNone(manager)
    /\ backend_raises => BackendCanFail
    /\ call' = [op |-> "search", query_text |-> query_text, top_k |-> top_k,
                embed_raises |-> embed_raises, backend_raises |-> backend_raises,
                before |-> Val(manager)]
    /\ \E o \in search(Val(manager), query_text, top_k, embed_raises, backend_raises) :
          result' = Some(o)
    /\ pc' = "done"
    /\ UNCHANGED <<supabase, hash_secret, session>>
    /\ UNCHANGED <<scorer, manager>>

DeleteResume(resume_id, backend_raises) ==
    /\ pc = "idle"
    /\ ~IsNone(manager)
    /\ backend_raises => Val(manager).vector_db_type = "pinecone"
    /\ call' = [op |-> "delete_resume", resume_id |-> resume_id,
                backend_raises |-> backend_raises, before |-> Val(manager)]
    /\ result' = Some(delete_resume(Val(manager), resume_id, backend_raises).outcome)
    /\ manager' = Some(delete_resume(Val(manager), resume_id, backend_raises).self)
    /\ pc' = "done"
    /\ UNCHANGED <<supabase, hash_secret, session>>
    /\ UNCHANGED scorer

Clear(backend_raises, index_replaced) ==
    /\ pc = "idle"
    /\ ~IsNone(manager)
    /\ backend_raises => BackendCanFail
    /\ index_replaced => backend_raises /\ Val(manager).vector_db_type = "faiss"
    /\ call' = [op |-> "clear", backend_raises |-> backend_raises,
                index_replaced |-> index_replaced, before |-> Val(manager)]
    /\ result' = Some(clear(Val(manager), backend_raises, index_replaced).outcome)
    /\ manager' = Some(clear(Val(manager), backend_raises, index_replaced).self)
    /\ pc' = "done"
    /\ UNCHANGED <<supabase, hash_secret, session>>
    /\ UNCHANGED scorer

GetStats(backend_raises) ==
    /\ pc = "idle"
    /\ ~IsNone(manager)
    /\ backend_raises => Val(manager).vector_db_type = "pinecone"
    /\ call' = [op |-> "get_stats", backend_raises |-> backend_raises]
    /\ result' = Some(get_stats(Val(manager), backend_raises))
    /\ pc' = "done"
    /\ UNCHANGED <<supabase, hash_secret, session>>
    /\ UNCHANGED <<scorer, manager>>

SaveFaissIndex ==
    /\ pc = "idle"
    /\ ~IsNone(manager)
    /\ call' = [op |-> "save_faiss_index"]
    /\ result' = Some(save_faiss_index(Val(manager)).outcome)
    /\ manager' = Some(save_faiss_index(Val(manager)).self)
    /\ pc' = "done"
    /\ UNCHANGED <<supabase, hash_secret, session>>
    /\ UNCHANGED scorer

LoadFaissIndex(file) ==
    /\ pc = "idle"
    /\ ~IsNone(manager)
    /\ call' = [op |-> "load_faiss_index", file |-> file, before |-> Val(manager)]
    /\ result' = Some(load_faiss_index(Val(manager), file).outcome)
    /\ manager' = Some(load_faiss_index(Val(manager), file).self)
    /\ pc' = "done"
    /\ UNCHANGED <<supabase, hash_secret, session>>
    /\ UNCHANGED scorer

\* compare_resume_to_job has no try: what generate_embeddings raises
\* (embed_raises: the model failing in encode, embeddings.py 168) leaves
\* the call
CompareResumeToJob(resume_data, job_description, embed_raises) ==
    /\ pc = "idle"
    /\ ~IsNone(manager)
    /\ call' = [op |-> "compare_resume_to_job", resume_data |-> resume_data,
                job_description |-> job_description, embed_raises |-> embed_raises]
    /\ result' = Some(IF embed_raises THEN Raise("Exception")
                      ELSE Returned(CompareTable[Val(manager).model, resume_data,
                                                 job_description]))
    /\ pc' = "done"
    /\ UNCHANGED <<supabase, hash_secret, session>>
    /\ UNCHANGED <<scorer, manager>>

IndexNext ==
    \/ /\ pc = "idle"
       /\ \E m \in EmbeddingModels, k \in ApiKeys, e \in PineconeEnvironments,
             f \in BOOLEAN, environ \in Environs, x, y, z \in BOOLEAN :
               ConstructManager(m, k, e, f, environ, x, y, z)
    \/ /\ pc = "idle"
       /\ WithinBound(1)
       /\ \E id \in ResumeIds, u \in UpsertInputs, x, y \in BOOLEAN :
               UpsertResume(id, u[1], u[2], x, y)
    \/ /\ pc = "idle"
       /\ \E resumes \in UpsertBatches :
            WithinBound(Len(resumes)) /\ UpsertResumesBatch(resumes)
    \/ \E x, y \in BOOLEAN : UpsertBatchTurn(x, y)
    \/ \E id \in ResumeIds, r \in {R_John, R_Jane} : OtherClientUpsertsVector(id, r)
    \/ \E id \in ResumeIds : OtherClientDeletesVector(id)
    \/ /\ pc = "idle"
       /\ \E q \in Queries, k \in TopKs, x, y \in BOOLEAN : Search(q, k, x, y)
    \/ /\ pc = "idle"
       /\ \E id \in ResumeIds, y \in BOOLEAN : DeleteResume(id, y)
    \/ /\ pc = "idle"
       /\ \E y, z \in BOOLEAN : Clear(y, z)
    \/ /\ pc = "idle"
       /\ \E y \in BOOLEAN : GetStats(y)
    \/ /\ pc = "idle"
       /\ SaveFaissIndex
    \/ /\ pc = "idle"
       /\ \E file \in SavedFiles : LoadFaissIndex(file)
    \/ /\ pc = "idle"
       /\ \E r \in Resumes, j \in JobDescriptions, x \in BOOLEAN : CompareResumeToJob(r, j, x)
    \/ Return

\* the process of a session starts under any of the secrets
IndexInit ==
    /\ scorer = NoScorer
    /\ manager = NoManager
    /\ supabase = EmptyTable
    /\ hash_secret \in HashSecrets
    /\ pc = "idle"
    /\ call = [op |-> "none"]
    /\ result = None
    /\ session = None

SpecIndex == IndexInit /\ [][IndexNext]_vars


-----------------------------------------------------------------------------
(* What the specification says of the index, claim by claim                *)

\* both credentials reach __init__, as arguments or from the environment
CredentialsPresent ==
    /\ Truthy(Or(call.pinecone_api_key, Getenv(call.environ, "PINECONE_API_KEY")))
    /\ Truthy(Or(call.pinecone_environment, Getenv(call.environ, "PINECONE_ENVIRONMENT")))

\* the manager of the session
Manager == Val(manager)

\* construction always ends with one of the three backends selected
ConstructionAlwaysSelects ==
    Done("EmbeddingsManager") =>
        /\ HasReturned
        /\ Outcome.value.vector_db_type \in {"pinecone", "faiss", "memory"}

\* the backend is the first of the three that initializes
FirstThatInitializes ==
    Done("EmbeddingsManager") /\ HasReturned =>
        Outcome.value.vector_db_type =
            IF CredentialsPresent /\ ~call.pinecone_fails THEN "pinecone"
            ELSE IF ~call.faiss_fails THEN "faiss"
            ELSE "memory"

\* C11, as the specification states it: construction always ends with one
\* of the three backends selected, which is the remote service if the
\* credentials are present and its initialization succeeds, otherwise the
\* local index if its initialization succeeds, otherwise the in-memory
\* store.
C11_BackendByPriority == ConstructionAlwaysSelects /\ FirstThatInitializes

\* C11, amended: the local index is tried only when use_faiss_fallback is
\* set, and construction raises when the embedding model cannot be loaded,
\* leaving no manager.  In every other case construction returns a manager
\* with exactly one backend: the remote service if the credentials are
\* present and its initialization succeeds, otherwise the local index if
\* the fallback is enabled and its initialization succeeds, otherwise the
\* in-memory store; no failure of a backend to initialize makes it raise.
C11_BackendByPriorityWhenEnabled ==
    Done("EmbeddingsManager") =>
        IF call.model_fails
        THEN /\ HasRaised
             /\ IsNone(manager)
        ELSE /\ HasReturned
             /\ manager = Some(Outcome.value)
             /\ Outcome.value.vector_db_type \in {"pinecone", "faiss", "memory"}
             /\ Outcome.value.vector_db_type =
                   IF CredentialsPresent /\ ~call.pinecone_fails THEN "pinecone"
                   ELSE IF call.use_faiss_fallback /\ ~call.faiss_fails THEN "faiss"
                   ELSE "memory"

\* the remote service was tried and failed, and the local index was chosen
C11_Witness ==
    /\ Done("EmbeddingsManager")
    /\ CredentialsPresent
    /\ call.pinecone_fails
    /\ call.use_faiss_fallback
    /\ ~call.faiss_fails
    /\ HasReturned
    /\ Outcome.value.vector_db_type = "faiss"

\* C12: once a manager is constructed, no step of the session changes its
\* vector_db_type (nor replaces the manager), whatever the call and
\* whether or not it fails.
C12_BackendNeverChanges ==
    [][~IsNone(manager) =>
          /\ ~IsNone(manager')
          /\ Val(manager').vector_db_type = Val(manager).vector_db_type
          /\ Val(manager').model = Val(manager).model]_vars

\* a clear has failed on the local index, which is still selected
C12_Witness ==
    /\ Done("clear")
    /\ call.backend_raises
    /\ Outcome.value = FALSE
    /\ Manager.vector_db_type = "faiss"
    /\ Manager.index # <<>>

\* the model or the backend failed during the call
CallFailed == call.embed_raises \/ call.backend_raises

\* C13: an upsert during which the model or the backend fails returns
\* false, a search returns the empty list, neither raises, and the manager
\* is left as it was before the call.
C13_FailuresAreReturned ==
    /\ Done("upsert_resume") /\ CallFailed =>
          HasReturned /\ Outcome.value = FALSE /\ Manager = call.before
    /\ Done("search") /\ CallFailed =>
          HasReturned /\ Outcome.value = <<>> /\ Manager = call.before

\* a search has failed on a backend that holds entries
C13_Witness ==
    /\ Done("search")
    /\ call.backend_raises
    /\ HasReturned
    /\ Outcome.value = <<>>
    /\ Manager.index # <<>>

\* the entries the manager holds under resume_id: vector and metadata
EntriesOf(self, resume_id) ==
    IF self.vector_db_type = "pinecone"
    THEN {[vector |-> self.index[i].values, metadata |-> self.index[i].metadata] :
            i \in {j \in DOMAIN self.index : self.index[j].id = resume_id}}
    ELSE IF self.vector_db_type = "faiss"
    THEN {[at |-> i, vector |-> self.index[i].vector,
           metadata |-> Get(self.faiss_metadata, self.index[i].id, EmptyDict)] :
            i \in {j \in DOMAIN self.index : self.index[j].id = NumericId(resume_id)}}
    ELSE {[vector |-> self.memory_vectors[i].embedding, metadata |-> self.memory_vectors[i].metadata] :
            i \in {j \in DOMAIN self.memory_vectors : self.memory_vectors[j].id = resume_id}}

\* C14: after a successful upsert the index holds exactly one entry under
\* the id, with the vector and the metadata of that upsert.
C14_UpsertOverwrites ==
    Done("upsert_resume") /\ Outcome.value = TRUE =>
        /\ Cardinality(EntriesOf(Manager, call.resume_id)) = 1
        /\ \A e \in EntriesOf(Manager, call.resume_id) :
              /\ e.vector = encode(Manager.model, UpsertText(call.resume_data, call.custom_text))
              /\ e.metadata = Metadata(call.resume_id, call.resume_data,
                                  UpsertText(call.resume_data, call.custom_text))

\* the manager holds resume_id with the text, as its last upsert left it
HoldsText(self, resume_id, text) ==
    /\ EntriesOf(self, resume_id) # {}
    /\ \A e \in EntriesOf(self, resume_id) :
          e.metadata.text = Prefix(text, 500) /\ e.vector = encode(self.model, text)

\* C15: a search that does not fail, for at least one result, with a query
\* equal to the text an id is held with, returns the entry of that id
\* first.
C15_UpsertedTextIsTopResult ==
    Done("search") /\ ~CallFailed /\ call.top_k >= 1 =>
        \A id \in ResumeIds :
            HoldsText(Manager, id, call.query_text) =>
                Outcome.value # <<>> /\ Outcome.value[1].id = id

\* C16: a delete that returns true leaves no entry under the id.
C16_DeleteIsNeverSilent ==
    Done("delete_resume") /\ Outcome.value = TRUE =>
        EntriesOf(Manager, call.resume_id) = {}

\* C17: for every pair of embeddings the model gives, the value
\* compare_resume_to_job returns is within [0, 1], on every backend and
\* whatever the index holds.
C17_CompareInUnitInterval ==
    Done("compare_resume_to_job") /\ HasReturned =>
        RLe(RZero, Outcome.value) /\ RLe(Outcome.value, ROne)


-----------------------------------------------------------------------------
(* BiasDetector (bias_detection.py)                                        *)
(*                                                                         *)
(* A BiasFlag is a record of its severity, category, affected_candidates   *)
(* and the exact figures of its details; message is the fixed wording of   *)
(* the flag, and the figures that are rounded or formatted into message,   *)
(* recommendation and details are left out.                                *)

\* resume.get("name", "Unknown")
NameOf(resume) == Get(resume, "name", Some(Unknown))

\* [NameOf(r) for r in resumes if Test(r)]
NamesWhere(resumes, Test(_)) ==
    LET kept == SelectSeq(resumes, Test)
    IN  [i \in DOMAIN kept |-> NameOf(kept[i])]

\* critical_fields (bias_detection.py 136)
critical_fields == <<"name", "email", "skills", "experience_years">>

\* the test of lines 142-151 of _check_missing_fields: the value is None
\* or an empty list or str; 0 years of experience is a value
IsMissing(resume, field) ==
    IF field = "skills" THEN Get(resume, "skills", <<>>) = <<>>
    ELSE IF field = "experience_years" THEN IsNone(Get(resume, "experience_years", None))
    ELSE ~Truthy(Get(resume, field, None))

\* the severity of a missing-field flag (bias_detection.py 157)
CriticalRate == Rat(1, 2)

\* a flag for every field with a missing candidate, whatever the rate
MissingFieldFlag_unthresholded(self, resumes, field) ==
    LET missing_candidates == NamesWhere(resumes, LAMBDA r : IsMissing(r, field))
    IN  IF missing_candidates = <<>> THEN <<>>
        ELSE <<[severity |-> IF RLe(CriticalRate, Rat(Len(missing_candidates), Len(resumes)))
                             THEN "critical" ELSE "warning",
                category |-> "missing_data",
                message |-> "High rate of missing field",
                affected_candidates |-> missing_candidates,
                details |-> [field |-> field, missing_count |-> Len(missing_candidates),
                             missing_rate |-> Rat(Len(missing_candidates), Len(resumes))]]>>

\* one turn of the loop of _check_missing_fields (bias_detection.py
\* 138-170): the flags it appends for the field
MissingFieldFlag(self, resumes, field) ==
    LET missing_candidates == NamesWhere(resumes, LAMBDA r : IsMissing(r, field))
    IN  IF missing_candidates = <<>> THEN <<>>
        ELSE IF ~RLe(self.missing_field_threshold, Rat(Len(missing_candidates), Len(resumes))) THEN <<>>
        ELSE <<[severity |-> IF RLe(CriticalRate, Rat(Len(missing_candidates), Len(resumes)))
                             THEN "critical" ELSE "warning",
                category |-> "missing_data",
                message |-> "High rate of missing field",
                affected_candidates |-> missing_candidates,
                details |-> [field |-> field, missing_count |-> Len(missing_candidates),
                             missing_rate |-> Rat(Len(missing_candidates), Len(resumes))]]>>

\* _check_missing_fields (bias_detection.py 132-172)
_check_missing_fields(self, resumes) ==
    MissingFieldFlag(self, resumes, critical_fields[1])
    \o MissingFieldFlag(self, resumes, critical_fields[2])
    \o MissingFieldFlag(self, resumes, critical_fields[3])
    \o MissingFieldFlag(self, resumes, critical_fields[4])

\* the least and the greatest of a non-empty sequence of integers
MinOf(xs) == CHOOSE x \in Range(xs) : \A y \in Range(xs) : x <= y
MaxOf(xs) == CHOOSE x \in Range(xs) : \A y \in Range(xs) : y <= x

\* cv > threshold of lines 189-193, where cv is statistics.stdev(xs) /
\* statistics.mean(xs) for a positive mean and 0 otherwise.  For a
\* positive mean and a threshold that is not negative the quotient is
\* compared without the square root: n * (n * sum(x^2) - sum(x)^2) * den^2
\* > num^2 * sum(x)^2 * (n - 1)
ExceedsVariation(xs, threshold) ==
    LET n == Len(xs)
        sum == SumSeq(xs)
        squares == SumSeq([i \in DOMAIN xs |-> xs[i] * xs[i]])
    IN  IF sum <= 0 \/ threshold[1] < 0 THEN threshold[1] < 0
        ELSE n * (n * squares - sum * sum) * threshold[2] * threshold[2]
                > threshold[1] * threshold[1] * sum * sum * (n - 1)

\* min(xs) and max(xs) return the first element that has the least or the
\* greatest value: 2 of [2, 2.0], 2.0 of [2.0, 2]
FirstOfValue(xs, v) ==
    xs[CHOOSE i \in DOMAIN xs : xs[i].value = v /\ \A j \in 1..(i - 1) : xs[j].value # v]

\* x - y of two numbers: an int when both are
PySub(x, y) ==
    IF x.type = "int" /\ y.type = "int" THEN PyInt(x.value - y.value)
    ELSE PyFloat(x.value - y.value)

\* _check_experience_variance (bias_detection.py 174-224)
_check_experience_variance(self, resumes) ==
    LET known == SelectSeq(resumes, LAMBDA r : ~IsNone(Get(r, "experience_years", None)))
        experience_years == [i \in DOMAIN known |-> Val(known[i].experience_years)]
        values == [i \in DOMAIN known |-> experience_years[i].value]
    IN  IF Len(experience_years) < 2 THEN <<>>
        ELSE IF SumSeq(values) = 0 THEN <<>>
        ELSE IF ~ExceedsVariation(values, self.variance_threshold) THEN <<>>
        ELSE
            LET min_exp == FirstOfValue(experience_years, MinOf(values))
                max_exp == FirstOfValue(experience_years, MaxOf(values))
            IN  <<[severity |-> "warning",
                   category |-> "variance",
                   message |-> "Extreme variance in experience distribution",
                   affected_candidates |-> <<>>,
                   details |-> [min_experience |-> min_exp,
                                max_experience |-> max_exp,
                                range |-> PySub(max_exp, min_exp)]]>>

\* some degree of the list contains one of the words
AnyDegreeHas(degrees, words) ==
    \E i \in DOMAIN degrees : \E w \in words : Contains(w, degrees[i])

\* the education level of a candidate (bias_detection.py 235-253)
EducationLevel(resume) ==
    LET education == Get(resume, "education", <<>>)
        degrees == [i \in DOMAIN education |-> Lower(Get(education[i], "degree", <<>>))]
    IN  IF education = <<>> THEN "none"
        ELSE IF AnyDegreeHas(degrees, {<<"p","h","d">>, <<"d","o","c","t","o","r","a","t","e">>}) THEN "phd"
        ELSE IF AnyDegreeHas(degrees, {<<"m","a","s","t","e","r">>, <<"m","b","a">>, <<"m","s">>, <<"m","a">>}) THEN "master"
        ELSE IF AnyDegreeHas(degrees, {<<"b","a","c","h","e","l","o","r">>, <<"b","s">>, <<"b","a">>}) THEN "bachelor"
        ELSE IF AnyDegreeHas(degrees, {<<"a","s","s","o","c","i","a","t","e">>}) THEN "associate"
        ELSE "other"

\* education_levels (bias_detection.py 231-253), built candidate by
\* candidate as the loop appends
RECURSIVE EducationLevels(_)
EducationLevels(resumes) ==
    IF resumes = <<>> THEN <<>>
    ELSE <<EducationLevel(resumes[1])>> \o EducationLevels(Tail(resumes))

\* Counter(items).most_common(1)[0] of a non-empty list: the most frequent
\* item, the one met first among equals, and its count
CountOf(items, x) == Cardinality({i \in DOMAIN items : items[i] = x})
MostCommon(items) ==
    LET best == CHOOSE i \in DOMAIN items :
                    /\ \A j \in DOMAIN items : CountOf(items, items[j]) <= CountOf(items, items[i])
                    /\ \A j \in 1..(i - 1) : CountOf(items, items[j]) < CountOf(items, items[i])
    IN  <<items[best], CountOf(items, items[best])>>

\* the share of a cohort above which one education level dominates, and
\* the least cohort the rule looks at (bias_detection.py 274)
DominantShare == Rat(4, 5)
MinPatternCohort == 5

\* the flags of _check_education_patterns for a cohort that is not empty
EducationFlags(self, resumes, education_levels, no_education_candidates) ==
    (IF RLe(self.missing_field_threshold, Rat(Len(no_education_candidates), Len(resumes)))
     THEN <<[severity |-> "warning",
             category |-> "missing_data",
             message |-> "High rate of missing education data",
             affected_candidates |-> no_education_candidates,
             details |-> [missing_count |-> Len(no_education_candidates),
                          missing_rate |-> Rat(Len(no_education_candidates), Len(resumes))]]>>
     ELSE <<>>)
    \o (IF /\ RLt(DominantShare, Rat(MostCommon(education_levels)[2], Len(education_levels)))
           /\ Len(resumes) >= MinPatternCohort
        THEN <<[severity |-> "info",
                category |-> "pattern",
                message |-> "Education distribution heavily skewed",
                affected_candidates |-> <<>>,
                details |-> [dominant_level |-> MostCommon(education_levels)[1],
                             dominant_count |-> MostCommon(education_levels)[2],
                             dominant_percentage |-> Rat(MostCommon(education_levels)[2], Len(resumes))]]>>
        ELSE <<>>)

\* _check_education_patterns (bias_detection.py 226-289): the division by
\* len(resumes) of line 256 raises for an empty cohort
_check_education_patterns(self, resumes) ==
    IF resumes = <<>> THEN Raise("ZeroDivisionError")
    ELSE CHOOSE outcome \in
            {Returned(EducationFlags(self, resumes, education_levels,
                        NamesWhere(resumes, LAMBDA r : Get(r, "education", <<>>) = <<>>))) :
                education_levels \in {EducationLevels(resumes)}} : TRUE

\* the skill counts below which a candidate, and a cohort on average, has
\* few skills (bias_detection.py 320, 323)
FewSkills == 3
MinDiversityCohort == 3

\* _check_skill_diversity (bias_detection.py 291-339)
_check_skill_diversity(self, resumes) ==
    LET all_skills == UNION {Range(Get(resumes[i], "skills", <<>>)) : i \in DOMAIN resumes}
        candidate_skill_counts == [i \in DOMAIN resumes |-> Len(Get(resumes[i], "skills", <<>>))]
    IN  IF all_skills = {}
        THEN <<[severity |-> "critical",
                category |-> "missing_data",
                message |-> "No skills extracted from any candidate",
                affected_candidates |-> [i \in DOMAIN resumes |-> NameOf(resumes[i])],
                details |-> [total_unique_skills |-> 0, candidates_affected |-> Len(resumes)]]>>
        ELSE IF SumSeq(candidate_skill_counts) < FewSkills * Len(resumes) /\ Len(resumes) >= MinDiversityCohort
        THEN <<[severity |-> "warning",
                category |-> "missing_data",
                message |-> "Low skill extraction rate",
                affected_candidates |->
                    NamesWhere(resumes, LAMBDA r : Len(Get(r, "skills", <<>>)) < FewSkills),
                details |->
                    [total_unique_skills |-> Cardinality(all_skills),
                     candidates_with_few_skills |->
                        Len(SelectSeq(resumes, LAMBDA r : Len(Get(r, "skills", <<>>)) < FewSkills))]]>>
        ELSE <<>>


\* max and min of a non-empty sequence of floats
FMaxOf(xs) == CHOOSE x \in Range(xs) : \A y \in Range(xs) : FLe(y, x)
FMinOf(xs) == CHOOSE x \in Range(xs) : \A y \in Range(xs) : FLe(x, y)

\* max(final_scores) - min(final_scores) (bias_detection.py 359)
score_range(final_scores) == FSub(FMaxOf(final_scores), FMinOf(final_scores))

\* score_range < threshold (bias_detection.py 361)
SpreadBelow(final_scores, threshold) ==
    FLt(score_range(final_scores), Float(threshold))

\* the same with <= for <
SpreadNotAbove(final_scores, threshold) ==
    FLe(score_range(final_scores), Float(threshold))

\* the figures of _check_scoring_patterns (bias_detection.py 349, 380, 383)
MinScoredCohort == 3
PerfectScore == Rat(99, 100)
PerfectShare == Rat(3, 10)

\* a scoring check that also flags a spread equal to the threshold
_check_scoring_patterns_inclusive(self, resumes, score_breakdowns) ==
    LET final_scores == [i \in DOMAIN score_breakdowns |-> Get(score_breakdowns[i], "final_score", FZero)]
        pairs == {i \in DOMAIN resumes : i \in DOMAIN score_breakdowns}
        perfect == {i \in pairs : FLe(Float(PerfectScore), final_scores[i])}
        perfect_scores == SelectSeq([i \in DOMAIN resumes |-> <<i, NameOf(resumes[i])>>],
                                    LAMBDA e : e[1] \in perfect)
    IN  IF Len(score_breakdowns) < MinScoredCohort THEN <<>>
        ELSE
            (IF /\ SpreadNotAbove(final_scores, self.score_spread_threshold)
                /\ Len(resumes) >= MinPatternCohort
             THEN <<[severity |-> "warning",
                     category |-> "pattern",
                     message |-> "Scores clustered in narrow range",
                     affected_candidates |-> <<>>,
                     details |-> EmptyDict]>>
             ELSE <<>>)
            \o (IF RLt(RMul(Rat(Len(resumes), 1), PerfectShare), Rat(Len(perfect_scores), 1))
                THEN <<[severity |-> "info",
                        category |-> "pattern",
                        message |-> "Unusually high rate of near-perfect scores",
                        affected_candidates |-> [i \in DOMAIN perfect_scores |-> perfect_scores[i][2]],
                        details |-> [perfect_score_count |-> Len(perfect_scores),
                                     perfect_score_rate |-> Rat(Len(perfect_scores), Len(resumes))]]>>
                ELSE <<>>)

\* _check_scoring_patterns (bias_detection.py 341-396)
_check_scoring_patterns(self, resumes, score_breakdowns) ==
    LET final_scores == [i \in DOMAIN score_breakdowns |-> Get(score_breakdowns[i], "final_score", FZero)]
        pairs == {i \in DOMAIN resumes : i \in DOMAIN score_breakdowns}
        perfect == {i \in pairs : FLe(Float(PerfectScore), final_scores[i])}
        perfect_scores == SelectSeq([i \in DOMAIN resumes |-> <<i, NameOf(resumes[i])>>],
                                    LAMBDA e : e[1] \in perfect)
    IN  IF Len(score_breakdowns) < MinScoredCohort THEN <<>>
        ELSE
            (IF /\ SpreadBelow(final_scores, self.score_spread_threshold)
                /\ Len(resumes) >= MinPatternCohort
             THEN <<[severity |-> "warning",
                     category |-> "pattern",
                     message |-> "Scores clustered in narrow range",
                     affected_candidates |-> <<>>,
                     details |-> EmptyDict]>>
             ELSE <<>>)
            \o (IF RLt(RMul(Rat(Len(resumes), 1), PerfectShare), Rat(Len(perfect_scores), 1))
                THEN <<[severity |-> "info",
                        category |-> "pattern",
                        message |-> "Unusually high rate of near-perfect scores",
                        affected_candidates |-> [i \in DOMAIN perfect_scores |-> perfect_scores[i][2]],
                        details |-> [perfect_score_count |-> Len(perfect_scores),
                                     perfect_score_rate |-> Rat(Len(perfect_scores), Len(resumes))]]>>
                ELSE <<>>)

\* key_fields (bias_detection.py 406)
key_fields == <<"name", "email", "phone", "skills", "experience_years", "education">>

\* `if resume.get(field)` (bias_detection.py 407)
IsPresent(resume, field) ==
    IF field \in {"skills", "education"} THEN Get(resume, field, <<>>) # <<>>
    ELSE IF field = "experience_years"
    THEN ~IsNone(Get(resume, field, None)) /\ Val(Get(resume, field, None)).value # 0
    ELSE Truthy(Get(resume, field, None))

\* fewer than half of the key fields are present (bias_detection.py 407-411)
IsIncomplete(resume) ==
    2 * Cardinality({i \in DOMAIN key_fields : IsPresent(resume, key_fields[i])}) < Len(key_fields)

\* _check_parsing_quality (bias_detection.py 398-426)
_check_parsing_quality(self, resumes) ==
    LET incomplete_candidates == NamesWhere(resumes, IsIncomplete)
    IN  IF incomplete_candidates = <<>> THEN <<>>
        ELSE <<[severity |-> "warning",
                category |-> "parsing_quality",
                message |-> "candidates have incomplete data",
                affected_candidates |-> incomplete_candidates,
                details |-> [incomplete_count |-> Len(incomplete_candidates),
                             incomplete_rate |-> Rat(Len(incomplete_candidates), Len(resumes))]]>>

\* the items of a list that occur more than once, each once, in the order
\* of their first occurrence: the keys of `duplicates`
Duplicated(items) ==
    SelectSeq([i \in DOMAIN items |-> <<i, items[i]>>],
              LAMBDA e : /\ CountOf(items, e[2]) > 1
                         /\ \A j \in 1..(e[1] - 1) : items[j] # e[2])

\* email.split("@")[1] if "@" in email else ""
DomainOf(email) ==
    LET ats == {i \in DOMAIN email : email[i] = "@"}
    IN  IF ats = {} THEN <<>>
        ELSE LET first == CHOOSE i \in ats : \A j \in ats : i <= j
                 later == {i \in ats : i > first}
                 stop == IF later = {} THEN Len(email) + 1
                         ELSE CHOOSE i \in later : \A j \in later : i <= j
             IN  SubSeq(email, first + 1, stop - 1)

\* common_domains (bias_detection.py 458) and the share of line 460
common_domains == {<<"g","m","a","i","l",".","c","o","m">>, <<"y","a","h","o","o",".","c","o","m">>, <<"h","o","t","m","a","i","l",".","c","o","m">>, <<"o","u","t","l","o","o","k",".","c","o","m">>}
DomainShare == Rat(7, 10)

\* the email flag of _check_data_consistency for a non-empty list of emails
DomainFlags(resumes, emails, domains) ==
    IF /\ MostCommon(domains)[1] \notin common_domains
       /\ RLt(DomainShare, Rat(MostCommon(domains)[2], Len(emails)))
       /\ Len(resumes) >= MinPatternCohort
    THEN <<[severity |-> "info",
            category |-> "pattern",
            message |-> "Email addresses concentrated in one domain",
            affected_candidates |-> <<>>,
            details |-> [dominant_domain |-> MostCommon(domains)[1],
                         domain_count |-> MostCommon(domains)[2],
                         domain_rate |-> Rat(MostCommon(domains)[2], Len(emails))]]>>
    ELSE <<>>

\* the duplicate flag of _check_data_consistency
DuplicateFlags(names) ==
    IF Duplicated(names) = <<>> THEN <<>>
    ELSE <<[severity |-> "warning",
            category |-> "consistency",
            message |-> "Potential duplicate candidates detected",
            affected_candidates |-> [i \in DOMAIN Duplicated(names) |-> Duplicated(names)[i][2]],
            details |-> [duplicates |->
                {<<Duplicated(names)[i][2], CountOf(names, Duplicated(names)[i][2])>> : i \in DOMAIN Duplicated(names)}]]>>

\* _check_data_consistency (bias_detection.py 428-476)
_check_data_consistency(self, resumes) ==
    LET named == SelectSeq(resumes, LAMBDA r : Truthy(Get(r, "name", None)))
        names == [i \in DOMAIN named |-> Strip(Lower(Val(named[i].name)))]
        mailed == SelectSeq(resumes, LAMBDA r : Truthy(Get(r, "email", None)))
        emails == [i \in DOMAIN mailed |-> Lower(Val(mailed[i].email))]
    IN  DuplicateFlags(names)
        \o (IF emails = <<>> THEN <<>>
            ELSE DomainFlags(resumes, emails, [i \in DOMAIN emails |-> DomainOf(emails[i])]))

\* the number of flags of a severity
CountSeverity(flags, severity) == Cardinality({i \in DOMAIN flags : flags[i].severity = severity})

\* _generate_summary (bias_detection.py 478-500): the summary is the text
\* of these counts, a count of 0 leaving its sentence out
_generate_summary(total_candidates, flags) ==
    [total_candidates |-> total_candidates,
     critical |-> CountSeverity(flags, "critical"),
     warning |-> CountSeverity(flags, "warning"),
     info |-> CountSeverity(flags, "info")]

\* the BiasReport of generate_report (bias_detection.py 126-130)
Report(resumes, flags) ==
    [total_candidates |-> Len(resumes), flags |-> flags,
     summary |-> _generate_summary(Len(resumes), flags)]

\* a report that also leaves the parsing check out when it is given no
\* score breakdowns
generate_report_unscored(self, resumes, score_breakdowns) ==
    IF _check_education_patterns(self, resumes).outcome = "raised"
    THEN _check_education_patterns(self, resumes)
    ELSE Returned(Report(resumes,
        _check_missing_fields(self, resumes)
        \o _check_experience_variance(self, resumes)
        \o _check_education_patterns(self, resumes).value
        \o _check_skill_diversity(self, resumes)
        \o (IF Truthy(score_breakdowns)
            THEN _check_scoring_patterns(self, resumes, Val(score_breakdowns))
                 \o _check_parsing_quality(self, resumes)
            ELSE <<>>)
        \o _check_data_consistency(self, resumes)))

\* generate_report (bias_detection.py 84-130): the flags of the checks in
\* the order they run; the exception of a check is the exception of the
\* call
generate_report(self, resumes, score_breakdowns) ==
    IF _check_education_patterns(self, resumes).outcome = "raised"
    THEN _check_education_patterns(self, resumes)
    ELSE Returned(Report(resumes,
        _check_missing_fields(self, resumes)
        \o _check_experience_variance(self, resumes)
        \o _check_education_patterns(self, resumes).value
        \o _check_skill_diversity(self, resumes)
        \o (IF Truthy(score_breakdowns)
            THEN _check_scoring_patterns(self, resumes, Val(score_breakdowns)) ELSE <<>>)
        \o _check_parsing_quality(self, resumes)
        \o _check_data_consistency(self, resumes)))

\* generate_bias_report (bias_detection.py 504-526): the report of a
\* detector with the default thresholds
generate_bias_report(resumes, score_breakdowns) ==
    generate_report([missing_field_threshold |-> Rat(3, 10),
                     variance_threshold |-> Rat(7, 10),
                     score_spread_threshold |-> Rat(6, 10)], resumes, score_breakdowns)

-----------------------------------------------------------------------------
(* The audits of a detector.  A BiasDetector keeps its three thresholds    *)
(* from construction (bias_detection.py 66-82) and nothing else, so it is  *)
(* an argument of each call.                                               *)

\* BiasDetector(missing_field_threshold, variance_threshold, score_spread_threshold)
BiasDetector(missing_field_threshold, variance_threshold, score_spread_threshold) ==
    [missing_field_threshold |-> missing_field_threshold,
     variance_threshold |-> variance_threshold,
     score_spread_threshold |-> score_spread_threshold]

\* BiasDetector() with the defaults of lines 68-70, and a detector that is
\* to flag every missing field
DefaultDetector == BiasDetector(Rat(3, 10), Rat(7, 10), Rat(6, 10))
Detectors == {DefaultDetector, BiasDetector(RZero, Rat(3, 2), Rat(1, 10))}

\* parsed resumes: a complete one, one with a name only, one whose fields
\* are all empty, one without a name, one with a name, an email and no
\* experience yet
A_Alice ==
    [name |-> Some(<<"A","l","i","c","e"," ","L","e","e">>),
     email |-> Some(<<"a","l","i","c","e","@","g","m","a","i","l",".","c","o","m">>),
     phone |-> Some(<<"5","5","5">>),
     skills |-> <<Sk_Python, Sk_Java, Sk_AWS>>,
     experience_years |-> Some(PyFloat(5)),
     education |-> <<Edu(Dg_Master)>>]
A_Bob == [name |-> Some(<<"B","o","b">>)]
A_Carol ==
    [name |-> None, email |-> Some(<<>>), skills |-> <<>>,
     experience_years |-> Some(PyInt(0)), education |-> <<>>]
A_Dan ==
    [email |-> Some(<<"d","a","n","@","c","o","r","p",".","i","o">>), skills |-> <<Sk_Java>>,
     experience_years |-> None, education |-> <<Edu(Dg_Bachelor)>>]
A_Eve ==
    [name |-> Some(<<"E","v","e">>),
     email |-> Some(<<"e","v","e","@","o","u","t","l","o","o","k",".","c","o","m">>),
     experience_years |-> Some(PyFloat(0))]
AuditResumes == {A_Alice, A_Bob, A_Carol, A_Dan, A_Eve}

\* a resume whose years of experience are negative
A_Fay == [name |-> Some(<<"F","a","y">>), experience_years |-> Some(PyInt(-5))]

\* the cohorts: every list of up to MaxCohort of the resumes, the lists of
\* up to MaxLargeCohort of two of them, and the lists of up to MaxCohort of
\* a resume with negative years and one with positive years
MaxCohort == 3
MaxLargeCohort == 5
LargeCohortResumes == {A_Alice, A_Carol}
NegativeCohortResumes == {A_Fay, A_Alice}
Cohorts ==
    SeqsUpTo(AuditResumes, MaxCohort) \cup SeqsUpTo(LargeCohortResumes, MaxLargeCohort)
        \cup SeqsUpTo(NegativeCohortResumes, MaxCohort)

\* lists of score breakdowns parallel to a cohort: one perfect score per
\* candidate; scores falling by a tenth; a perfect score followed by scores
\* of 0.4; two scores of 0.99 followed by scores of 0.5; a score of 0.94
\* followed by scores of 0.34, which are 0.5999999999999999 apart as floats
ParallelBreakdowns(resumes) ==
    {[i \in DOMAIN resumes |-> [final_score |-> FOne]],
     [i \in DOMAIN resumes |-> [final_score |-> IF i = 1 THEN Float(Rat(94, 100)) ELSE Float(Rat(34, 100))]],
     [i \in DOMAIN resumes |-> [final_score |-> Float(Rat(10 - i, 10))]],
     [i \in DOMAIN resumes |-> [final_score |-> IF i = 1 THEN FOne ELSE Float(Rat(2, 5))]],
     [i \in DOMAIN resumes |-> [final_score |-> IF i <= 2 THEN Float(Rat(99, 100)) ELSE Float(Rat(1, 2))]]}

\* the score breakdowns handed in with a cohort: none, an empty list, or
\* a parallel list
ScoreBreakdowns(resumes) ==
    {None, Some(<<>>)} \cup {Some(score_breakdowns) : score_breakdowns \in ParallelBreakdowns(resumes)}

Audit(op, self, resumes, outcome) ==
    /\ pc' = "done"
    /\ UNCHANGED <<supabase, hash_secret, session>>
    /\ call' = [op |-> op, self |-> self, resumes |-> resumes]
    /\ result' = Some(outcome)
    /\ UNCHANGED <<scorer, manager>>

GenerateReport(self, resumes, score_breakdowns) ==
    /\ pc' = "done"
    /\ UNCHANGED <<supabase, hash_secret, session>>
    /\ call' = [op |-> "generate_report", self |-> self, resumes |-> resumes,
                score_breakdowns |-> score_breakdowns]
    /\ result' = Some(generate_report(self, resumes, score_breakdowns))
    /\ UNCHANGED <<scorer, manager>>

CheckMissingFields(self, resumes) ==
    Audit("_check_missing_fields", self, resumes, Returned(_check_missing_fields(self, resumes)))

CheckEducationPatterns(self, resumes) ==
    Audit("_check_education_patterns", self, resumes, _check_education_patterns(self, resumes))

CheckSkillDiversity(self, resumes) ==
    Audit("_check_skill_diversity", self, resumes, Returned(_check_skill_diversity(self, resumes)))

CheckScoringPatterns(self, resumes, score_breakdowns) ==
    /\ pc' = "done"
    /\ UNCHANGED <<supabase, hash_secret, session>>
    /\ call' = [op |-> "_check_scoring_patterns", self |-> self, resumes |-> resumes,
                score_breakdowns |-> score_breakdowns]
    /\ result' = Some(Returned(_check_scoring_patterns(self, resumes, score_breakdowns)))
    /\ UNCHANGED <<scorer, manager>>

CheckParsingQuality(self, resumes) ==
    Audit("_check_parsing_quality", self, resumes, Returned(_check_parsing_quality(self, resumes)))

AuditNext ==
    \/ /\ pc = "idle"
       /\ \E self \in Detectors, resumes \in Cohorts :
            \E score_breakdowns \in ScoreBreakdowns(resumes) :
                GenerateReport(self, resumes, score_breakdowns)
    \/ /\ pc = "idle"
       /\ \E self \in Detectors, resumes \in Cohorts : CheckMissingFields(self, resumes)
    \/ /\ pc = "idle"
       /\ \E self \in Detectors, resumes \in Cohorts : CheckEducationPatterns(self, resumes)
    \/ /\ pc = "idle"
       /\ \E self \in Detectors, resumes \in Cohorts : CheckSkillDiversity(self, resumes)
    \/ /\ pc = "idle"
       /\ \E self \in Detectors, resumes \in Cohorts :
            \E score_breakdowns \in ParallelBreakdowns(resumes) :
                CheckScoringPatterns(self, resumes, score_breakdowns)
    \/ /\ pc = "idle"
       /\ \E self \in Detectors, resumes \in Cohorts : CheckParsingQuality(self, resumes)
    \/ Return

SpecAudit == Init /\ [][AuditNext]_vars

-----------------------------------------------------------------------------
(* What the specification says of the audits, claim by claim.              *)

\* the flags a finished call returned
Flags == IF call.op = "generate_report" THEN Outcome.value.flags ELSE Outcome.value

\* the flags among them with the wording
FlagsWorded(message) == SelectSeq(Flags, LAMBDA f : f.message = message)

\* C18: generate_report on an empty cohort raises no exception and returns
\* a report with total_candidates = 0 and no flags, with or without score
\* breakdowns.
C18_EmptyCohortReport ==
    Done("generate_report") /\ call.resumes = <<>> =>
        /\ HasReturned
        /\ Outcome.value.total_candidates = 0
        /\ Outcome.value.flags = <<>>

\* the candidates of the cohort of the call that miss the field, by name
MissingOf(field) == NamesWhere(call.resumes, LAMBDA r : IsMissing(r, field))

\* the missing-field flags of the call for the field
MissingFlagsOf(field) == SelectSeq(FlagsWorded("High rate of missing field"), LAMBDA f : f.details.field = field)

\* the fraction of the cohort of the call that misses the field is at or
\* above the threshold of its detector
AtOrAboveThreshold(field) ==
    RLe(call.self.missing_field_threshold, Rat(Len(MissingOf(field)), Len(call.resumes)))

\* the one flag of the field names exactly the candidates that miss it and
\* is critical from a half of the cohort on, a warning below
MissingFlagIsRight(field) ==
    /\ Len(MissingFlagsOf(field)) = 1
    /\ MissingFlagsOf(field)[1].affected_candidates = MissingOf(field)
    /\ MissingFlagsOf(field)[1].severity =
            IF 2 * Len(MissingOf(field)) >= Len(call.resumes) THEN "critical" ELSE "warning"

\* C19, as the specification states it: for each critical field the check
\* of a cohort raises a missing-data flag if and only if the fraction of
\* candidates missing the field is at or above the threshold, critical from
\* 0.5 on and a warning below, naming exactly the candidates that miss it.
C19_FlagIffAtThreshold ==
    Done("_check_missing_fields") /\ call.resumes # <<>> =>
        \A field \in Range(critical_fields) :
            IF AtOrAboveThreshold(field) THEN MissingFlagIsRight(field)
            ELSE MissingFlagsOf(field) = <<>>

\* C19, amended: the flag is raised if and only if some candidate misses
\* the field and the fraction is at or above the threshold; the severity
\* and the affected candidates are as stated.
C19_FlagIffMissingAtThreshold ==
    Done("_check_missing_fields") =>
        /\ \A field \in Range(critical_fields) :
            IF MissingOf(field) # <<>> /\ AtOrAboveThreshold(field) THEN MissingFlagIsRight(field)
            ELSE MissingFlagsOf(field) = <<>>
        /\ Len(Flags) = Cardinality({field \in Range(critical_fields) : MissingFlagsOf(field) # <<>>})

\* cohorts checked with the defaults: one candidate of four misses the
\* name and the email (no flag); and a cohort of
\* three of which two miss the name (critical) and one the experience
\* (warning)
C19_Witness ==
    /\ Done("_check_missing_fields")
    /\ call.self = DefaultDetector
    /\ \/ /\ call.resumes = <<A_Alice, A_Carol, A_Alice, A_Alice>>
          /\ MissingFlagsOf("name") = <<>>
          /\ MissingFlagsOf("email") = <<>>
       \/ /\ call.resumes = <<A_Alice, A_Carol, A_Dan>>
          /\ MissingFlagsOf("name")[1].severity = "critical"
          /\ MissingFlagsOf("experience_years")[1].severity = "warning"

\* the skills of the candidates of the cohort of the call
SkillCounts == [i \in DOMAIN call.resumes |-> Len(Get(call.resumes[i], "skills", <<>>))]

\* C20: the skill-diversity rule raises a critical flag if and only if the
\* cohort has at least one candidate and no candidate has any skill;
\* otherwise it raises a warning if and only if the cohort has at least 3
\* candidates and the average number of skills per candidate is below 3.
C20_SkillDiversityRule ==
    Done("_check_skill_diversity") =>
        IF call.resumes # <<>> /\ SumSeq(SkillCounts) = 0
        THEN Len(Flags) = 1 /\ Flags[1].severity = "critical"
        ELSE IF Len(call.resumes) >= 3 /\ SumSeq(SkillCounts) < 3 * Len(call.resumes)
        THEN Len(Flags) = 1 /\ Flags[1].severity = "warning"
        ELSE Flags = <<>>

\* the list of score breakdowns of the call, empty when none was supplied
Supplied ==
    IF call.op = "_check_scoring_patterns" THEN call.score_breakdowns
    ELSE IF Truthy(call.score_breakdowns) THEN Val(call.score_breakdowns) ELSE <<>>

\* a finished audit that was handed score breakdowns and returned
ScoredCall ==
    /\ pc = "done"
    /\ call.op \in {"generate_report", "_check_scoring_patterns"}
    /\ HasReturned
    /\ Supplied # <<>>

\* the final scores of the call
FinalScores == [i \in DOMAIN Supplied |-> Supplied[i].final_score]

\* the spread as the floats give it is strictly below the threshold of the
\* detector
SpreadIsBelowThreshold == SpreadBelow(FinalScores, call.self.score_spread_threshold)

\* the flags of the scoring rules that the call returned
ClusteringFlags == FlagsWorded("Scores clustered in narrow range")
PerfectFlags == FlagsWorded("Unusually high rate of near-perfect scores")

\* C21: for a cohort of 5 or more candidates with score breakdowns supplied,
\* the score-clustering warning is raised if and only if the spread
\* max(final_score) - min(final_score), the difference of the two floats
\* as a float, is strictly below the spread threshold of the detector, and
\* it is a warning.
C21_ClusteringIffBelowSpread ==
    ScoredCall /\ Len(call.resumes) >= 5 =>
        IF SpreadIsBelowThreshold
        THEN Len(ClusteringFlags) = 1 /\ ClusteringFlags[1].severity = "warning"
        ELSE ClusteringFlags = <<>>

\* a cohort of five checked with the defaults, scores of 0.94 and 0.34:
\* 0.94 - 0.34 is 0.5999999999999999 and the cohort is flagged
C21_Witness ==
    /\ ScoredCall
    /\ call.self = DefaultDetector
    /\ Len(call.resumes) = 5
    /\ FMaxOf(FinalScores) = Float(Rat(94, 100))
    /\ FMinOf(FinalScores) = Float(Rat(34, 100))
    /\ ClusteringFlags # <<>>

\* the flags of a report that the scoring rules did not raise
UnscoredFlags == SelectSeq(Flags, LAMBDA f : f.message \notin {"Scores clustered in narrow range", "Unusually high rate of near-perfect scores"})

\* C22: the flags of generate_report for a cohort without score breakdowns
\* are the flags of the report for the same cohort with score breakdowns,
\* minus the flags of the scoring rules, in the same order and with the
\* same content.
C22_UnscoredReportSkipsScoringOnly ==
    Done("generate_report") /\ HasReturned /\ Supplied # <<>> =>
        /\ generate_report(call.self, call.resumes, None).outcome = "returned"
        /\ generate_report(call.self, call.resumes, None).value.flags = UnscoredFlags
        /\ generate_report(call.self, call.resumes, Some(<<>>)) = generate_report(call.self, call.resumes, None)

\* a report with score breakdowns in which a flag of a scoring rule stands
\* between flags of other rules
C22_Witness ==
    /\ Done("generate_report") /\ HasReturned /\ Supplied # <<>>
    /\ \E i, j, k \in DOMAIN Flags :
        /\ i < j /\ j < k
        /\ Flags[i].message = "No skills extracted from any candidate"
        /\ Flags[j].message = "Scores clustered in narrow range"
        /\ Flags[k].message = "candidates have incomplete data"

\* C26: with score breakdowns supplied, the clustering warning is raised
\* for every cohort of at least 3 candidates, of size 3 and 4 too, whose
\* final-score spread is below the spread threshold.
C26_ClusteringFromThree ==
    ScoredCall /\ Len(call.resumes) >= 3 /\ SpreadIsBelowThreshold =>
        ClusteringFlags # <<>>

\* the candidates of the call with a final score of 0.99 or more
PerfectCandidates == {i \in DOMAIN call.resumes : i \in DOMAIN Supplied /\ FLe(Float(Rat(99, 100)), FinalScores[i])}

\* C27: the near-perfect-score info flag is raised if and only if score
\* breakdowns are supplied, the cohort has at least 5 candidates and more
\* than 30% of the candidates have a final score of 0.99 or more; it is
\* never raised for a cohort of fewer than 5 candidates.
C27_PerfectScoresFromFive ==
    pc = "done" /\ call.op \in {"generate_report", "_check_scoring_patterns"} /\ HasReturned =>
        (PerfectFlags # <<>>) <=>
            /\ Supplied # <<>>
            /\ Len(call.resumes) >= 5
            /\ 10 * Cardinality(PerfectCandidates) > 3 * Len(call.resumes)

\* a checklist field of the candidate is populated, 0 years of experience
\* counting as a value
IsPopulated(resume, field) ==
    IF field = "experience_years" THEN ~IsNone(Get(resume, field, None))
    ELSE IsPresent(resume, field)

\* the candidate has fewer than 3 of the six checklist fields populated
HasFewFields(resume) == Cardinality({i \in DOMAIN key_fields : IsPopulated(resume, key_fields[i])}) < 3

\* C29: the parsing-completeness rule raises a warning naming exactly the
\* candidates that have fewer than 3 of the six checklist fields populated;
\* a candidate with 3 or more populated fields, 0 years of experience
\* counting as populated, is never reported.
C29_IncompleteCandidates ==
    Done("_check_parsing_quality") =>
        IF NamesWhere(call.resumes, HasFewFields) = <<>> THEN Flags = <<>>
        ELSE /\ Len(Flags) = 1
             /\ Flags[1].severity = "warning"
             /\ Flags[1].affected_candidates = NamesWhere(call.resumes, HasFewFields)

-----------------------------------------------------------------------------
(* SupabaseManager (supabase_client.py): the persistence of the analyses.  *)
(* The manager keeps its client and nothing else; the table is the state   *)
(* of the Supabase project, which other clients share.  The clock and the  *)
(* answer of the project to each request are inputs of a call.             *)

UnknownPdf == <<"u","n","k","n","o","w","n",".","p","d","f">>

\* store_analysis lines 95-114: the fields of the row
AnalysisFields(timestamp, job_description, resume_data, score_breakdown) ==
    [timestamp |-> timestamp,
     job_description |-> job_description,
     candidate_name |-> Get(resume_data, "name", Some(Unknown)),
     candidate_email |-> Get(resume_data, "email", None),
     candidate_phone |-> Get(resume_data, "phone", None),
     final_score |-> Get(score_breakdown, "final_score", FZero),
     skill_match_score |-> Get(score_breakdown, "skill_match_score", None),
     experience_score |-> Get(score_breakdown, "experience_score", None),
     education_score |-> Get(score_breakdown, "education_score", None),
     semantic_score |-> Get(score_breakdown, "semantic_similarity_score", None),
     experience_years |-> Get(score_breakdown, "experience_years", Some(PyInt(0))),
     required_experience |-> Get(score_breakdown, "required_experience", None),
     has_required_degree |-> Get(score_breakdown, "has_required_degree", FALSE),
     matched_skills |-> Get(score_breakdown, "matched_skills", <<>>),
     missing_skills |-> Get(score_breakdown, "missing_skills", <<>>),
     resume_data |-> resume_data,
     score_breakdown |-> score_breakdown,
     filename |-> Get(resume_data, "filename", Some(UnknownPdf))]

\* lines 117-120: the fields of the explanation, when there is one
ExplanationFields(explanation) ==
    [explanation_summary |-> Get(Val(explanation), "summary", None),
     explanation_reasons |-> Get(Val(explanation), "top_reasons", <<>>),
     explanation_recommendation |-> Get(Val(explanation), "recommendation", None)]

\* lines 95-120: the row store_analysis asks the project to insert
AnalysisData(timestamp, job_description, resume_data, score_breakdown, explanation) ==
    IF Truthy(explanation)
    THEN AnalysisFields(timestamp, job_description, resume_data, score_breakdown)
            @@ ExplanationFields(explanation)
    ELSE AnalysisFields(timestamp, job_description, resume_data, score_breakdown)

\* the answers of the project to a request: it does the work and returns
\* the rows, does the work and returns no data, fails, or does the work and
\* its answer does not arrive, so that the request raises
Responses == {"row", "empty", "error", "late"}

\* the table after the insert of data with the answer `response`: the id
\* of the row is the number of the insert among those the project received
Inserted(db, data, response) ==
    [resume_analyses |-> IF response = "error" THEN db.resume_analyses
                         ELSE Append(db.resume_analyses, data),
     ids |-> IF response = "error" THEN db.ids
             ELSE Append(db.ids, Len(db.requests) + 1),
     requests |-> Append(db.requests, data),
     deleted |-> db.deleted]

\* the positions of the rows the table keeps when those of the ids go
Kept(db, ids) ==
    IF db.ids = <<>> THEN <<>>
    ELSE SelectSeq([k \in 1..Len(db.ids) |-> k], LAMBDA k : db.ids[k] \notin ids)

\* the table without the rows of the ids
WithoutRows(db, ids) ==
    [resume_analyses |-> IF Kept(db, ids) = <<>> THEN <<>>
                         ELSE [i \in 1..Len(Kept(db, ids)) |-> db.resume_analyses[Kept(db, ids)[i]]],
     ids |-> SelectSeq(db.ids, LAMBDA id : id \notin ids),
     requests |-> db.requests,
     deleted |-> db.deleted \cup (ids \cap Range(db.ids))]

\* store_analysis (supabase_client.py 75-128): how the call ends, and the
\* table after it.  Line 125: response.data[0] if response.data else {};
\* lines 126-128: an exception of the request is raised again
store_analysis(db, job_description, resume_data, score_breakdown, explanation, timestamp, response) ==
    [result |-> IF response = "error" THEN Raise("Exception")
                ELSE IF response = "late" THEN Raise("TimeoutError")
                ELSE IF response = "empty" THEN Returned(EmptyDict)
                ELSE Returned(AnalysisData(timestamp, job_description, resume_data,
                                  score_breakdown, explanation)),
     supabase |-> Inserted(db, AnalysisData(timestamp, job_description, resume_data,
                                  score_breakdown, explanation), response)]

\* lines 148-152: the explanation of an analysis of two or three parts
ExplanationOf(analysis) == IF Len(analysis) = 2 THEN None ELSE analysis[3]

\* one turn of the loop of lines 147-164 on a state of the loop: the
\* records so far and the table; a record that could not be stored is
\* skipped (162-164)
StoreTurn(state, stored) ==
    [records |-> IF stored.result.outcome = "raised" THEN state.records
                 ELSE Append(state.records, stored.result.value),
     supabase |-> stored.supabase]

\* delete_analysis (supabase_client.py 289-304): True unless the request
\* raises
delete_analysis(db, analysis_id, response) ==
    [result |-> Returned(response \in {"row", "empty"}),
     supabase |-> IF response = "error" THEN db ELSE WithoutRows(db, {analysis_id})]

\* the ids of the rows whose timestamp is before the cutoff
OlderThan(db, cutoff) ==
    {db.ids[k] : k \in {k \in DOMAIN db.ids : db.resume_analyses[k].timestamp < cutoff}}

\* clear_old_analyses (supabase_client.py 306-329): the rows before
\* utcnow() - days are deleted; the number of the rows the project returns,
\* 0 when the request raises
clear_old_analyses(db, days, now, response) ==
    [result |-> Returned(IF response = "row" THEN Cardinality(OlderThan(db, now - days))
                         ELSE 0),
     supabase |-> IF response = "error" THEN db
                  ELSE WithoutRows(db, OlderThan(db, now - days))]

-----------------------------------------------------------------------------
(* The session of a store: one table, the caller and another client of the *)
(* project                                                                 *)

\* a serialized breakdown and a serialized explanation
SB_Alice ==
    [skill_match_score |-> Rat(1, 2), experience_score |-> ROne,
     education_score |-> ROne, semantic_similarity_score |-> Rat(1, 2),
     final_score |-> Float(Rat(7, 10)), matched_skills |-> <<Sk_Python>>,
     missing_skills |-> <<Sk_AWS>>, experience_years |-> Some(PyFloat(5)),
     required_experience |-> Some(PyFloat(3)), has_required_degree |-> TRUE]
Ex_Alice ==
    [summary |-> <<"G","o","o","d">>,
     top_reasons |-> << <<"a">>, <<"b">>, <<"c">> >>,
     recommendation |-> <<"G","o","o","d"," ","M","a","t","c","h">>]

\* the analyses of a batch: (resume_data, score_breakdown) or
\* (resume_data, score_breakdown, explanation)
Analyses ==
    {<<R_Empty, EmptyDict>>, <<A_Alice, SB_Alice, None>>,
     <<A_Alice, SB_Alice, Some(Ex_Alice)>>, <<R_Jane, SB_Alice, Some(EmptyDict)>>}

\* the length of the longest batch, the inserts a table may have received
\* and the last reading of the clock
MaxAnalyses == 2
MaxRequests == 3
MaxClock == 2

\* the row another client stores
OtherRow ==
    AnalysisFields(1, JD_Python, [name |-> Some(<<"O","t","h","e","r">>)], EmptyDict)

StoreAnalysis(job_description, analysis, timestamp, response) ==
    /\ pc = "idle"
    /\ call' = [op |-> "store_analysis", job_description |-> job_description,
                resume_data |-> analysis[1], score_breakdown |-> analysis[2],
                explanation |-> ExplanationOf(analysis),
                timestamp |-> timestamp, response |-> response]
    /\ result' = Some(store_analysis(supabase, job_description, analysis[1], analysis[2],
                          ExplanationOf(analysis), timestamp, response).result)
    /\ supabase' = store_analysis(supabase, job_description, analysis[1], analysis[2],
                          ExplanationOf(analysis), timestamp, response).supabase
    /\ pc' = "done"
    /\ UNCHANGED <<scorer, manager, hash_secret, session>>

\* store_batch_analyses (supabase_client.py 130-166) is called: lines
\* 145-147.  Each turn of its loop sends one insert and waits for the answer
\* of the project; line 166 returns the records when the last turn is over.
StoreBatchAnalyses(job_description, analyses) ==
    /\ pc = "idle"
    /\ call' = [op |-> "store_batch_analyses", job_description |-> job_description,
                analyses |-> analyses, timestamps |-> <<>>, responses |-> <<>>,
                ids |-> <<>>, records |-> <<>>]
    /\ IF analyses = <<>>
       THEN /\ pc' = "done"
            /\ result' = Some(Returned(<<>>))
       ELSE /\ pc' = "storing"
            /\ result' = None
    /\ UNCHANGED <<scorer, manager, supabase, hash_secret, session>>

\* the state after a turn of the loop: the turn is recorded with the id its
\* insert was given, and the call ends with the last turn; the handler of
\* the analyze button drops the records (app.py 504)
Turned(turn, timestamp, response) ==
    /\ supabase' = turn.supabase
    /\ call' = [call EXCEPT !.timestamps = Append(@, timestamp),
                            !.responses = Append(@, response),
                            !.ids = Append(@, Len(supabase.requests) + 1),
                            !.records = turn.records]
    /\ IF Len(call.timestamps) + 1 = Len(call.analyses)
       THEN /\ pc' = "done"
            /\ result' = Some(IF call.op = "analyze" THEN call.outcome
                              ELSE Returned(turn.records))
       ELSE /\ pc' = "storing"
            /\ UNCHANGED result
    /\ UNCHANGED <<scorer, manager, hash_secret, session>>

\* one turn of the loop of lines 147-164: the next analysis is stored
StoreBatchTurn(timestamp, response) ==
    /\ pc = "storing"
    /\ Turned(StoreTurn([records |-> call.records, supabase |-> supabase],
                  store_analysis(supabase, call.job_description,
                      call.analyses[Len(call.timestamps) + 1][1],
                      call.analyses[Len(call.timestamps) + 1][2],
                      ExplanationOf(call.analyses[Len(call.timestamps) + 1]),
                      timestamp, response)),
              timestamp, response)

DeleteAnalysis(analysis_id, response) ==
    /\ pc = "idle"
    /\ call' = [op |-> "delete_analysis", analysis_id |-> analysis_id,
                response |-> response, before |-> supabase]
    /\ result' = Some(delete_analysis(supabase, analysis_id, response).result)
    /\ supabase' = delete_analysis(supabase, analysis_id, response).supabase
    /\ pc' = "done"
    /\ UNCHANGED <<scorer, manager, hash_secret, session>>

ClearOldAnalyses(days, now, response) ==
    /\ pc = "idle"
    /\ call' = [op |-> "clear_old_analyses", days |-> days, now |-> now,
                response |-> response, before |-> supabase]
    /\ result' = Some(clear_old_analyses(supabase, days, now, response).result)
    /\ supabase' = clear_old_analyses(supabase, days, now, response).supabase
    /\ pc' = "done"
    /\ UNCHANGED <<scorer, manager, hash_secret, session>>

\* another client of the project inserts a row, between two calls of the
\* session or between two turns of a batch
OtherClientInserts ==
    /\ pc \in {"idle", "storing"}
    /\ supabase' = Inserted(supabase, OtherRow, "row")
    /\ UNCHANGED <<scorer, manager, hash_secret, session, pc, call, result>>

\* another client deletes a row
OtherClientDeletes(id) ==
    /\ pc \in {"idle", "storing"}
    /\ id \in Range(supabase.ids)
    /\ supabase' = WithoutRows(supabase, {id})
    /\ UNCHANGED <<scorer, manager, hash_secret, session, pc, call, result>>

\* the turns the batch in progress has yet to take
PendingTurns == IF pc = "storing" THEN Len(call.analyses) - Len(call.timestamps) ELSE 0

\* the table stays within MaxRequests inserts after n more and those of the
\* batch in progress
WithinRequests(n) == Len(supabase.requests) + PendingTurns + n <= MaxRequests

StoreNext ==
    \/ /\ pc = "idle"
       /\ WithinRequests(1)
       /\ \E j \in {JD_Python}, a \in Analyses, t \in 1..MaxClock, r \in Responses :
             StoreAnalysis(j, a, t, r)
    \/ /\ pc = "idle"
       /\ \E j \in {JD_Python}, as \in SeqsUpTo(Analyses, MaxAnalyses) :
             WithinRequests(Len(as)) /\ StoreBatchAnalyses(j, as)
    \/ \E t \in 1..MaxClock, r \in Responses : StoreBatchTurn(t, r)
    \/ \E id \in 1..MaxRequests, r \in Responses : DeleteAnalysis(id, r)
    \/ \E days \in 0..1, now \in 1..MaxClock, r \in Responses : ClearOldAnalyses(days, now, r)
    \/ WithinRequests(1) /\ OtherClientInserts
    \/ \E id \in 1..MaxRequests : OtherClientDeletes(id)
    \/ Return

SpecStore == Init /\ [][StoreNext]_vars

-----------------------------------------------------------------------------
(* What the specification says of the store                                *)

\* the row store_analysis asks for analyses[i] of the finished batch
RequestOf(i) ==
    AnalysisData(call.timestamps[i], call.job_description, call.analyses[i][1],
        call.analyses[i][2], ExplanationOf(call.analyses[i]))

\* the positions of the batch whose insert did not fail
StoredPositions == {i \in DOMAIN call.analyses : call.responses[i] # "error"}

\* the store was asked for every record of the batch, in the order of the
\* batch
AttemptsEveryRecordInOrder ==
    /\ Len(call.ids) = Len(call.analyses)
    /\ \A i \in DOMAIN call.analyses : supabase.requests[call.ids[i]] = RequestOf(i)
    /\ \A i \in 1..(Len(call.ids) - 1) : call.ids[i] < call.ids[i + 1]

\* every record whose insert did not fail is in the table, unless a client
\* has deleted it since, whatever happened to the records before it
FailureStopsNothing ==
    \A i \in StoredPositions :
        \/ call.ids[i] \in supabase.deleted
        \/ \E k \in DOMAIN supabase.ids :
              /\ supabase.ids[k] = call.ids[i]
              /\ supabase.resume_analyses[k] = RequestOf(i)

\* the result has an entry for each record of the batch
ReportsEveryRecord == Len(Outcome.value) = Len(call.analyses)

\* C24: store_batch_analyses attempts to store every record of the batch in
\* input order, a failure to store one record does not stop the remaining
\* records from being stored, and the result reports success or failure
\* for each input record.
C24_BatchStoresAndReportsEachRecord ==
    Done("store_batch_analyses") =>
        /\ HasReturned
        /\ AttemptsEveryRecordInOrder
        /\ FailureStopsNothing
        /\ ReportsEveryRecord

-----------------------------------------------------------------------------
(* ResumeScorer.explain_match (scoring.py 514-735).  The OpenAI library,   *)
(* the API key of the environment and the answer of the chat completion    *)
(* are inputs of the call.                                                 *)

\* str.split('\n')
RECURSIVE SplitLines(_)
SplitLines(s) ==
    IF \A i \in 1..Len(s) : s[i] # "\n" THEN <<s>>
    ELSE LET i == CHOOSE i \in 1..Len(s) : s[i] = "\n" /\ \A j \in 1..(i - 1) : s[j] # "\n"
         IN  <<SubSeq(s, 1, i - 1)>> \o SplitLines(SubSeq(s, i + 1, Len(s)))

\* the length of the run of whitespace of s from position i: what a greedy
\* \s* takes
RECURSIVE SpaceRun(_, _)
SpaceRun(s, i) == IF i <= Len(s) /\ IsSpace(s[i]) THEN 1 + SpaceRun(s, i + 1) ELSE 0

\* the length of the run of digits of s from position i
RECURSIVE DigitRun(_, _)
DigitRun(s, i) == IF i <= Len(s) /\ IsDigit(s[i]) THEN 1 + DigitRun(s, i + 1) ELSE 0

T_Summary == <<"S","u","m","m","a","r","y",":">>
T_Top3Reasons == <<"T","o","p"," ","3"," ","R","e","a","s","o","n","s",":">>
T_Recommendation == <<"R","e","c","o","m","m","e","n","d","a","t","i","o","n",":">>

\* the lookahead (?=\n\nMarker|Marker) at position e
Ahead(content, e, marker) ==
    MatchAt(<<"\n","\n">> \o marker, content, e) \/ MatchAt(marker, content, e)

\* `$` at position e (re.DOTALL, no re.MULTILINE): the end of the text, or
\* the newline that ends it
AtEnd(content, e) ==
    e = Len(content) + 1 \/ (e = Len(content) /\ content[e] = "\n")

\* the positions where a group (.+?) that starts at g may end: before the
\* lookahead of the marker, or before `$` for the empty marker
GroupEnds(content, g, marker) ==
    {e \in (g + 1)..(Len(content) + 1) :
        IF marker = <<>> THEN AtEnd(content, e) ELSE Ahead(content, e, marker)}

\* the positions where the group may start when the head matches at p:
\* after \s*, or after \s*\n when newline is asked for
GroupStarts(content, p, head, marker, newline) ==
    {g \in (p + Len(head))..(p + Len(head) + SpaceRun(content, p + Len(head))) :
        /\ newline => (g > p + Len(head) /\ content[g - 1] = "\n")
        /\ GroupEnds(content, g, marker) # {}}

\* the group of the match at p: \s* is greedy, (.+?) is not
GroupAt(content, p, head, marker, newline) ==
    LET g == CHOOSE g \in GroupStarts(content, p, head, marker, newline) :
                \A h \in GroupStarts(content, p, head, marker, newline) : h <= g
    IN  SubSeq(content, g,
            (CHOOSE e \in GroupEnds(content, g, marker) :
                \A f \in GroupEnds(content, g, marker) : e <= f) - 1)

\* re.search(head \s* [\n] (.+?) (?=marker), content, re.DOTALL): the group
\* of the leftmost match, or None
SearchGroup(content, head, marker, newline) ==
    LET ps == {p \in 1..Len(content) :
                 /\ MatchAt(head, content, p)
                 /\ GroupStarts(content, p, head, marker, newline) # {}}
    IN  IF ps = {} THEN None
        ELSE Some(GroupAt(content, CHOOSE p \in ps : \A q \in ps : p <= q,
                      head, marker, newline))

\* lines 677-679
summary_match(content) == SearchGroup(content, T_Summary, T_Top3Reasons, FALSE)
reasons_match(content) == SearchGroup(content, T_Top3Reasons, T_Recommendation, TRUE)
recommendation_match(content) == SearchGroup(content, T_Recommendation, <<>>, FALSE)

\* re.sub(r'^\d+\.\s*', '', line)
WithoutNumber(line) ==
    IF DigitRun(line, 1) > 0 /\ DigitRun(line, 1) < Len(line)
       /\ line[DigitRun(line, 1) + 1] = "."
    THEN SubSeq(line, DigitRun(line, 1) + 2 + SpaceRun(line, DigitRun(line, 1) + 2), Len(line))
    ELSE line

\* re.sub(r'^-\s*', '', reason)
WithoutDash(reason) ==
    IF reason # <<>> /\ reason[1] = "-"
    THEN SubSeq(reason, 2 + SpaceRun(reason, 2), Len(reason))
    ELSE reason

\* lines 685-695: the reasons among the lines
RECURSIVE ReasonsOf(_)
ReasonsOf(lines) ==
    IF lines = <<>> THEN <<>>
    ELSE (IF Strip(lines[1]) # <<>>
             /\ (IsDigit(Strip(lines[1])[1]) \/ Strip(lines[1])[1] = "-")
             /\ WithoutDash(WithoutNumber(Strip(lines[1]))) # <<>>
          THEN <<WithoutDash(WithoutNumber(Strip(lines[1])))>>
          ELSE <<>>)
         \o ReasonsOf(Tail(lines))

AdditionalAnalysisNeeded == <<"A","d","d","i","t","i","o","n","a","l"," ","a","n","a","l","y","s","i","s"," ","n","e","e","d","e","d">>
UnableToGenerateSummary == <<"U","n","a","b","l","e"," ","t","o"," ","g","e","n","e","r","a","t","e"," ","s","u","m","m","a","r","y",".">>
UnableToDetermine == <<"U","n","a","b","l","e"," ","t","o"," ","d","e","t","e","r","m","i","n","e">>

\* lines 698-700: exactly three reasons
ExactlyThree(top_reasons) ==
    SubSeq(top_reasons \o <<AdditionalAnalysisNeeded, AdditionalAnalysisNeeded,
                            AdditionalAnalysisNeeded>>, 1, 3)

\* lines 674-709: the explanation read from the stripped content of the
\* answer
ParsedExplanation(content) ==
    [summary |-> IF IsNone(summary_match(content)) THEN UnableToGenerateSummary
                 ELSE Strip(Val(summary_match(content))),
     top_reasons |-> ExactlyThree(
                 IF IsNone(reasons_match(content)) THEN <<>>
                 ELSE ReasonsOf(SplitLines(Strip(Val(reasons_match(content)))))),
     recommendation |-> IF IsNone(recommendation_match(content)) THEN UnableToDetermine
                        ELSE Strip(Val(recommendation_match(content)))]

T_None == <<"N","o","n","e">>
StrongMatch == <<"S","t","r","o","n","g"," ","M","a","t","c","h">>
GoodMatch == <<"G","o","o","d"," ","M","a","t","c","h">>
ModerateMatch == <<"M","o","d","e","r","a","t","e"," ","M","a","t","c","h">>
WeakMatch == <<"W","e","a","k"," ","M","a","t","c","h">>

\* str() of an optional number
NumberText(o) == IF IsNone(o) THEN T_None ELSE NumText(Val(o))

\* str() of an optional str
NameText(o) == IF IsNone(o) THEN T_None ELSE Val(o)

\* lines 714-725: the recommendation and the end of the summary by score
FallbackRecommendation(score) ==
    IF FLe(Float(Rat(8, 10)), score) THEN StrongMatch
    ELSE IF FLe(Float(Rat(6, 10)), score) THEN GoodMatch
    ELSE IF FLe(Float(Rat(4, 10)), score) THEN ModerateMatch
    ELSE WeakMatch

FallbackSummary(score) ==
    IF FLe(Float(Rat(8, 10)), score)
    THEN <<" ","s","h","o","w","s"," ","s","t","r","o","n","g"," ","a","l","i","g","n","m","e","n","t"," ","w","i","t","h"," ","t","h","e"," ","p","o","s","i","t","i","o","n"," ","r","e","q","u","i","r","e","m","e","n","t","s",".">>
    ELSE IF FLe(Float(Rat(6, 10)), score)
    THEN <<" ","d","e","m","o","n","s","t","r","a","t","e","s"," ","g","o","o","d"," ","f","i","t"," ","f","o","r"," ","t","h","e"," ","p","o","s","i","t","i","o","n"," ","w","i","t","h"," ","s","o","m","e"," ","a","r","e","a","s"," ","f","o","r"," ","i","m","p","r","o","v","e","m","e","n","t",".">>
    ELSE IF FLe(Float(Rat(4, 10)), score)
    THEN <<" ","h","a","s"," ","m","o","d","e","r","a","t","e"," ","a","l","i","g","n","m","e","n","t"," ","w","i","t","h"," ","s","o","m","e"," ","g","a","p","s"," ","i","n"," ","k","e","y"," ","r","e","q","u","i","r","e","m","e","n","t","s",".">>
    ELSE <<" ","d","o","e","s"," ","n","o","t"," ","a","l","i","g","n"," ","w","e","l","l"," ","w","i","t","h"," ","t","h","e"," ","c","o","r","e"," ","p","o","s","i","t","i","o","n"," ","r","e","q","u","i","r","e","m","e","n","t","s",".">>

\* lines 711-735: the explanation built from the scores
FallbackExplanation(candidate_name, score_breakdown) ==
    [summary |-> NameText(candidate_name) \o FallbackSummary(score_breakdown.final_score),
     top_reasons |-> <<
        <<"S","k","i","l","l","s"," ","m","a","t","c","h",":"," ">> \o IntToText(Len(score_breakdown.matched_skills))
            \o <<" ","m","a","t","c","h","e","d",","," ">> \o IntToText(Len(score_breakdown.missing_skills))
            \o <<" ","m","i","s","s","i","n","g">>,
        <<"E","x","p","e","r","i","e","n","c","e",":"," ">> \o NumberText(score_breakdown.experience_years)
            \o <<" ","y","e","a","r","s"," ","(","r","e","q","u","i","r","e","d",":"," ">> \o NumberText(score_breakdown.required_experience)
            \o <<")">>,
        <<"E","d","u","c","a","t","i","o","n",":"," ">>
            \o (IF score_breakdown.has_required_degree THEN <<"M","e","e","t","s">>
                ELSE <<"D","o","e","s"," ","n","o","t"," ","m","e","e","t">>)
            \o <<" ","r","e","q","u","i","r","e","m","e","n","t","s">> >>,
     recommendation |-> FallbackRecommendation(score_breakdown.final_score)]

\* lines 660-735 with the breakdown in hand: the chat completion raises,
\* or answers with a content (None: .strip() raises inside the try)
Explained(candidate_name, score_breakdown, completion) ==
    IF completion.kind = "raises" \/ IsNone(completion.content)
    THEN Returned(FallbackExplanation(candidate_name, score_breakdown))
    ELSE Returned(ParsedExplanation(Strip(Val(completion.content))))

\* explain_match (scoring.py 514-735): every way the call may end.
\* openai_available: the import of line 22 succeeded; environ_key:
\* os.getenv("OPENAI_API_KEY")
explain_match(self, resume_data, job_description, score_breakdown, api_key, openai_available, environ_key, em_raises, completion) ==
    IF ~openai_available THEN {Raise("ImportError")}
    ELSE
        {IF b.outcome = "raised" THEN b
         ELSE IF ~Truthy(IF Truthy(api_key) THEN api_key ELSE environ_key)
         THEN Raise("ValueError")
         ELSE Explained(Get(resume_data, "name", Some(<<"C","a","n","d","i","d","a","t","e">>)), b.value, completion) :
            b \in IF IsNone(score_breakdown)
                  THEN score_resume(self, resume_data, job_description,
                          None, None, None, em_raises)
                  ELSE {Returned(Val(score_breakdown))}}

-----------------------------------------------------------------------------
(* The session of an explainer: a scorer with the default weights and a    *)
(* single caller                                                           *)

\* answers of the chat completion
Co_Good ==
    <<"S","u","m","m","a","r","y",":"," ","F","i","t","s",".","\n","\n","T","o","p"," ","3"," ","R","e","a","s","o","n","s",":","\n","1","."," ","S","k","i","l","l","s","\n","2","."," ","Y","e","a","r","s","\n","3","."," ","D","e","g","r","e","e","\n","\n","R","e","c","o","m","m","e","n","d","a","t","i","o","n",":"," ","S","t","r","o","n","g"," ","M","a","t","c","h">>
Co_Refusal == <<"I"," ","c","a","n","n","o","t"," ","a","s","s","e","s","s",".">>
Co_Dashes ==
    <<" ","S","u","m","m","a","r","y",":"," ","O","k","\n","T","o","p"," ","3"," ","R","e","a","s","o","n","s",":","\n","-"," ","S","k","i","l","l","s","\n","-"," "," ","Y","e","a","r","s","\n","\n","R","e","c","o","m","m","e","n","d","a","t","i","o","n",":"," ","H","i","r","e"," ","n","o","w","\n">>
Co_Four ==
    <<"T","o","p"," ","3"," ","R","e","a","s","o","n","s",":","\n","\n","1",".","A","\n","2","."," ","B","\n","n","o","t","e","\n","3","."," ","C","\n","4","."," ","D","\n","R","e","c","o","m","m","e","n","d","a","t","i","o","n",":"," ","W","e","a","k"," ","M","a","t","c","h">>

\* the chat completion raises, answers without content, or answers with a
\* content
Completions ==
    {[kind |-> "raises"], [kind |-> "content", content |-> None]}
    \cup {[kind |-> "content", content |-> Some(c)] :
            c \in {Co_Good, Co_Refusal, Co_Dashes, Co_Four, <<>>}}

Sk_Key == <<"s","k">>
OpenAIKeys == {None, Some(<<>>), Some(Sk_Key)}
EnvironKeys == {None, Some(Sk_Key)}

SB_NoYears ==
    [SB_Alice EXCEPT !.experience_years = None, !.required_experience = None,
                     !.has_required_degree = FALSE, !.matched_skills = <<>>,
                     !.final_score = Float(Rat(39, 100))]

\* 0.35 * 0.0 + 0.25 * 0.8 + 0.15 * 1.0 + 0.25 * 0.2, the final score of
\* a candidate without the skills, with four of five years and the degree:
\* 0.39999999999999997
AlmostModerate == final_score(NewScorer(DefaultWeights, None), RZero, Rat(4, 5), ROne, Rat(1, 5))

\* the score_breakdown argument: None, or a breakdown on either side of
\* the three thresholds
ExplainBreakdowns ==
    {None, Some(SB_NoYears)}
    \cup {Some([SB_Alice EXCEPT !.final_score = f]) :
            f \in {Float(Rat(8, 10)), Float(Rat(79, 100)), Float(Rat(6, 10)), Float(Rat(4, 10)),
                   AlmostModerate}}
    \cup {Some([SB_Alice EXCEPT !.experience_years = Some(PyInt(5)),
                                !.required_experience = Some(PyInt(3))])}

ExplainResumes == {R_Empty, R_Blank, R_Jane}

ExplainMatch(resume_data, job_description, score_breakdown, api_key, openai_available, environ_key, em_raises, completion) ==
    /\ pc = "idle"
    /\ ~IsNone(scorer)
    /\ em_raises => HasManager /\ IsNone(score_breakdown) /\ openai_available
    /\ call' = [op |-> "explain_match", resume_data |-> resume_data,
                job_description |-> job_description,
                score_breakdown |-> score_breakdown, api_key |-> api_key,
                openai_available |-> openai_available,
                environ_key |-> environ_key, em_raises |-> em_raises,
                completion |-> completion]
    /\ \E o \in explain_match(Val(scorer), resume_data, job_description, score_breakdown,
                    api_key, openai_available, environ_key, em_raises, completion) :
          result' = Some(o)
    /\ pc' = "done"
    /\ UNCHANGED <<scorer, manager, supabase, hash_secret, session>>

ExplainNext ==
    \/ /\ pc = "idle"
       /\ \E em \in Managers : Construct(DefaultWeights, em)
    \/ /\ pc = "idle"
       /\ \E r \in ExplainResumes, j \in {JD_Python, JD_Senior},
             sb \in ExplainBreakdowns, k \in OpenAIKeys, a \in BOOLEAN,
             e \in EnvironKeys, x \in BOOLEAN, c \in Completions :
               ExplainMatch(r, j, sb, k, a, e, x, c)
    \/ Return

SpecExplain == Init /\ [][ExplainNext]_vars

-----------------------------------------------------------------------------
(* What the specification says of the explanations                         *)

\* the answer of the chat completion has none of the three sections
Unparsable(content) ==
    /\ IsNone(summary_match(Strip(content)))
    /\ IsNone(reasons_match(Strip(content)))
    /\ IsNone(recommendation_match(Strip(content)))

\* the finished call had no API key
NoApiKey == ~Truthy(call.api_key) /\ ~Truthy(call.environ_key)

\* the explanation collaborator failed the finished call: the library is
\* not installed, the key is missing, the completion raised or its answer
\* cannot be read
CollaboratorFailed ==
    \/ ~call.openai_available
    \/ NoApiKey
    \/ call.completion.kind = "raises"
    \/ IsNone(call.completion.content)
    \/ Unparsable(Val(call.completion.content))

\* the breakdowns the finished call may have explained
ExplainedBreakdowns ==
    IF IsNone(call.score_breakdown)
    THEN {b.value : b \in {o \in score_resume(Val(scorer), call.resume_data,
                                    call.job_description, None, None, None,
                                    call.em_raises) : o.outcome = "returned"}}
    ELSE {Val(call.score_breakdown)}

Recommendations == {StrongMatch, GoodMatch, ModerateMatch, WeakMatch}

\* the explanation is the fallback of one of the breakdowns
IsFallback(explanation) ==
    \E b \in ExplainedBreakdowns :
        /\ explanation.top_reasons
             = FallbackExplanation(Get(call.resume_data, "name", None), b).top_reasons
        /\ explanation.recommendation = FallbackRecommendation(b.final_score)

\* C23: on any failure of the explanation collaborator (library not
\* installed, API key missing, call error or unparsable response)
\* explain_match does not raise but returns the fallback built from the
\* fields of the breakdown, with exactly 3 top_reasons and a
\* recommendation among Strong Match, Good Match, Moderate Match and Weak
\* Match.
C23_FallbackOnAnyFailure ==
    Done("explain_match") /\ CollaboratorFailed =>
        /\ HasReturned
        /\ Len(Outcome.value.top_reasons) = 3
        /\ Outcome.value.recommendation \in Recommendations
        /\ IsFallback(Outcome.value)

-----------------------------------------------------------------------------
(* The analyze button of the application (app.py 452-511): the scorer of   *)
(* the session ranks the parsed resumes, the auditor is handed the parsed  *)
(* resumes and the serialized breakdowns of the ranking, each candidate of *)
(* the ranking is explained, and the analyses are stored when the session  *)
(* has a Supabase project.                                                 *)

\* line 475: [breakdown.to_dict() for _, breakdown in scored_results]
score_breakdown_dicts(scored_results) ==
    [i \in DOMAIN scored_results |-> scored_results[i][2]]

\* lines 484-495: the explanation of a candidate, None when explain_match
\* raises; scoring.explain_match (828-843) explains with a new scorer
\* without an embeddings manager and without an api_key
Explanation(explained) ==
    IF explained.outcome = "raised" THEN None ELSE Some(explained.value)

\* lines 482-495: the ranking with the explanation of each candidate
results_with_explanations(scored_results, job_description, openai_available, environ_key, completions) ==
    [i \in DOMAIN scored_results |->
        <<scored_results[i][1], scored_results[i][2],
          Explanation(CHOOSE explained \in
              explain_match(NewScorer(DefaultWeights, None), scored_results[i][1],
                  job_description, Some(scored_results[i][2]), None,
                  openai_available, environ_key, FALSE, completions[i]) : TRUE)>>]

\* lines 474-497 for one ranking: what the auditor was handed, what it
\* reported and the results the session keeps
Audited(parsed_resumes, scored_results, bias_report, analysis_results) ==
    IF bias_report.outcome = "raised" THEN bias_report
    ELSE Returned([scored_results |-> scored_results,
                   resumes |-> parsed_resumes,
                   score_breakdowns |-> score_breakdown_dicts(scored_results),
                   bias_report |-> bias_report.value,
                   analysis_results |-> analysis_results])

\* lines 468-497: every way the step may end before the analyses are
\* stored
analyze(self, parsed_resumes, job_description, em_raises, openai_available, environ_key, completions) ==
    {IF o.outcome = "raised" THEN o
     ELSE Audited(parsed_resumes, o.value,
              generate_bias_report(parsed_resumes, Some(score_breakdown_dicts(o.value))),
              results_with_explanations(o.value, job_description, openai_available,
                  environ_key, completions)) :
        o \in batch_score_resumes(self, parsed_resumes, job_description,
                  None, None, None, em_raises)}

\* the resumes of a session and the length of its longest cohort
PipelineResumes == {R_Empty, R_John, R_Jane}
MaxParsed == 2

\* a run of the script looks for the Supabase project of the session
\* (app.py 324-332) as long as the session holds no supabase_manager: on
\* its first run, and on every run after a look that failed.  The project
\* is used when check_supabase_connection() constructs a manager
\* (supabase_client.py 347-359; get_recent_analyses catches what the
\* request raises) and SupabaseManager() constructs the one the session
\* keeps; each construction takes a url and a key of the environment
\* (supabase_client.py 24-31) and a client (33), and what either raises
\* leaves the session without a project
StartSession(url, key, check_raises, client_raises) ==
    /\ pc = "idle"
    /\ IF IsNone(session) THEN TRUE ELSE ~Val(session).supabase_enabled
    /\ session' = Some([supabase_enabled |->
                            /\ Truthy(url) /\ Truthy(key) /\ ~check_raises
                            /\ Truthy(url) /\ Truthy(key) /\ ~client_raises])
    /\ UNCHANGED <<scorer, manager, supabase, hash_secret, pc, call, result>>

\* the call of the handler that ended as `analyzed`: lines 501-511 store
\* the analyses when the session has a project, one insert a turn
Analyzed(inputs, analyzed) ==
    IF analyzed.outcome = "returned" /\ Val(session).supabase_enabled
    THEN /\ pc' = "storing"
         /\ call' = inputs @@ [analyses |-> analyzed.value.analysis_results,
                               timestamps |-> <<>>, responses |-> <<>>, ids |-> <<>>,
                               records |-> <<>>, outcome |-> analyzed]
         /\ result' = None
    ELSE /\ pc' = "done"
         /\ call' = inputs
         /\ result' = Some(analyzed)

\* the analyze button (line 455: enabled with files in the uploader, a job
\* description entered and resumes parsed)
Analyze(uploaded_files, parsed_resumes, job_description, em_raises, openai_available, environ_key, completions) ==
    /\ pc = "idle"
    /\ ~IsNone(scorer)
    /\ ~IsNone(session)
    /\ uploaded_files > 0
    /\ job_description # <<>>
    /\ parsed_resumes # <<>>
    /\ (\E i \in DOMAIN em_raises : em_raises[i]) => HasManager
    /\ \E analyzed \in analyze(Val(scorer), parsed_resumes, job_description, em_raises,
                          openai_available, environ_key, completions) :
          Analyzed([op |-> "analyze", uploaded_files |-> uploaded_files,
                    parsed_resumes |-> parsed_resumes,
                    job_description |-> job_description, em_raises |-> em_raises,
                    openai_available |-> openai_available,
                    environ_key |-> environ_key, completions |-> completions],
                   analyzed)
    /\ UNCHANGED <<scorer, manager, supabase, hash_secret, session>>

\* the explainers of a session: the library is missing, the key is
\* missing, the chat completion raises, or it answers
Explainers ==
    {[openai_available |-> FALSE, environ_key |-> None, completion |-> [kind |-> "raises"]],
     [openai_available |-> TRUE, environ_key |-> None, completion |-> [kind |-> "raises"]],
     [openai_available |-> TRUE, environ_key |-> Some(Sk_Key), completion |-> [kind |-> "raises"]],
     [openai_available |-> TRUE, environ_key |-> Some(Sk_Key),
      completion |-> [kind |-> "content", content |-> Some(Co_Good)]]}

\* a session without a project, or one whose project has received no
\* insert yet: a session stores the analyses of one click
StoresOnce ==
    IF IsNone(session) THEN TRUE
    ELSE IF Val(session).supabase_enabled THEN supabase.requests = <<>>
    ELSE TRUE

PipelineNext ==
    \/ /\ pc = "idle"
       /\ \E em \in Managers : Construct(DefaultWeights, em)
    \/ \E url \in EnvironKeys, key \in EnvironKeys, check_raises \in BOOLEAN, client_raises \in BOOLEAN :
          StartSession(url, key, check_raises, client_raises)
    \/ /\ pc = "idle"
       /\ StoresOnce
       /\ \E rs \in SeqsUpTo(PipelineResumes, MaxParsed), j \in BatchJobs :
             /\ WithinRequests(Len(rs))
             /\ \E u \in {0, Len(rs)}, x \in BOOLEAN, e \in Explainers :
                     Analyze(u, rs, j, [i \in DOMAIN rs |-> x], e.openai_available,
                         e.environ_key, [i \in DOMAIN rs |-> e.completion])
    \/ \E r \in Responses : StoreBatchTurn(MaxClock, r)
    \/ WithinRequests(1) /\ OtherClientInserts
    \/ Return

SpecPipeline == Init /\ [][PipelineNext]_vars

-----------------------------------------------------------------------------
(* What the specification says of the analysis step                        *)

\* the breakdown the ranking pairs with a candidate
RankedBreakdownOf(resume) ==
    {Outcome.value.scored_results[k][2] :
        k \in {k \in DOMAIN Outcome.value.scored_results :
                 Outcome.value.scored_results[k][1] = resume}}

\* C28: in the analysis step the breakdowns handed to the auditor are
\* parallel to the candidates handed to it: the i-th breakdown is the
\* breakdown of the i-th candidate.
C28_BreakdownsParallelToCandidates ==
    Done("analyze") /\ HasReturned =>
        /\ Len(Outcome.value.score_breakdowns) = Len(Outcome.value.resumes)
        /\ \A i \in DOMAIN Outcome.value.resumes :
              Outcome.value.score_breakdowns[i] \in RankedBreakdownOf(Outcome.value.resumes[i])

=============================================================================
